---- MODULE Spec2Model ----
(***************************************************************************)
(* State-machine model of js/fluid.js: the WebGL fluid background effect.  *)
(*                                                                         *)
(* The script body (capability negotiation, pool allocation, the four      *)
(* initial splats, the first update) and every later frame callback are    *)
(* run-to-completion JavaScript jobs.  A job is a fixed sequence of calls; *)
(* the model keeps that sequence in pc and gives one action to each call   *)
(* (resizeCanvas/initFramebuffers, splat, autoSplat, step, render,         *)
(* requestAnimationFrame).  Event handlers and the environment act only    *)
(* between jobs (pc = "idle").                                             *)
(*                                                                         *)
(* Numbers: getResolution is computed in double precision, as JavaScript   *)
(* computes it; the other non-integer quantities (texture coordinates,     *)
(* uniforms) are exact rationals <<n, d>>; dt and the ambient timer are    *)
(* doubles too, of either sign.  The texel data of a texture is kept as    *)
(* `val`                                                                   *)
(* (the channel values while they are a known constant, <<>> once a shader *)
(* pass has written computed data) and `by` (the operation that last wrote *)
(* the texture).                                                           *)
(***************************************************************************)
EXTENDS Integers, Sequences, FiniteSets, TLC

\* ------------------------------------------------------------------ bounds

\* Frame callbacks (calls of update) the model follows, the first one included.
MaxTicks == 3
\* PRESSURE_ITERATIONS is drawn from 0..MaxIterations.
MaxIterations == 2
\* the canvas is laid out at every width and height up to this many pixels
\* (and at two larger ones) where the pool's resolution is examined
MaxDim == 5
\* Frame callbacks followed where the clock is examined: enough for the
\* ambient timer to pass its threshold.
MaxClockTicks == 25
\* The simulation grid where the arithmetic of the projection is followed
\* texel by texel, the most Jacobi sweeps configured there, and the number
\* of sweeps from which the pressure solve is taken as sufficient.
GridWidth == 3
GridHeight == 2
MaxSweeps == 4
SufficientSweeps == 3
\* The splat kernel is examined at the texture positions k / (2 * MaxOffset)
\* from the centre along each axis, k up to MaxOffset either way.
MaxOffset == 2

\* ------------------------------------------------------- program constants

SIM_RESOLUTION == 128
DYE_RESOLUTION == 1024
\* the literals 0.016667 and 0.4, in millionths
MaxDtMicros == 16667
AutoSplatThresholdMicros == 400000
InitialSplats == 4
\* Math.min(window.devicePixelRatio || 1, 2)
MaxDevicePixelRatio == 2

\* ---------------------------------------------------------------- numbers

Abs(x) == IF x < 0 THEN -x ELSE x

Max(a, b) == IF a > b THEN a ELSE b

Min(a, b) == IF a < b THEN a ELSE b

RECURSIVE GCD(_, _)
GCD(a, b) == IF b = 0 THEN a ELSE GCD(b, a % b)

\* The rational n/d (d # 0) in lowest terms with a positive denominator.
Rat(n, d) ==
  LET g == GCD(Abs(n), Abs(d))
      s == IF d < 0 THEN -1 ELSE 1
  IN <<(s * n) \div g, (s * d) \div g>>

RatMul(a, b) == Rat(a[1] * b[1], a[2] * b[2])

RatDiv(a, b) == Rat(a[1] * b[2], a[2] * b[1])

RatSub(a, b) == Rat(a[1] * b[2] - b[1] * a[2], a[2] * b[2])

RatLess(a, b) == a[1] * b[2] < b[1] * a[2]

\* Math.floor and Math.round (round half up) of a rational
Floor(a) == a[1] \div a[2]

Round(a) == (2 * a[1] + a[2]) \div (2 * a[2])

\* ------------------------------------------------- double-precision numbers
\* getResolution divides, inverts, multiplies and rounds JavaScript Numbers,
\* which are IEEE-754 doubles: every operation yields the double nearest to
\* the exact result (ties to the even significand).  A positive double is
\* [m, e], standing for m * 2^e, with m a natural number below
\* 2^SignificandBits written as a sequence of digits to base Base, least
\* significant first and without leading zeros (<<>> is 0), and odd unless
\* zero.  Only positive finite numbers away from overflow and underflow
\* occur here.

Base == 2 ^ 15

DigitBits == 15

\* the precision of a double: 53 significant bits
SignificandBits == 53

RECURSIVE BigNat(_)
BigNat(n) == IF n = 0 THEN <<>> ELSE <<n % Base>> \o BigNat(n \div Base)

\* the value of a digit sequence, for those that fit an integer
RECURSIVE BigValue(_)
BigValue(a) == IF a = <<>> THEN 0 ELSE a[1] + Base * BigValue(Tail(a))

Trim(a) ==
  LET nz == {i \in DOMAIN a : a[i] # 0}
  IN IF nz = {} THEN <<>>
     ELSE SubSeq(a, 1, CHOOSE i \in nz : \A j \in nz : j <= i)

Digit(a, i) == IF i \in DOMAIN a THEN a[i] ELSE 0

\* -1, 0, 1 as a < b, a = b, a > b
BigCmp(a, b) ==
  IF Len(a) # Len(b) THEN (IF Len(a) < Len(b) THEN -1 ELSE 1)
  ELSE LET d == {i \in DOMAIN a : a[i] # b[i]}
       IN IF d = {} THEN 0
          ELSE LET top == CHOOSE i \in d : \A j \in d : j <= i
               IN IF a[top] < b[top] THEN -1 ELSE 1

RECURSIVE AddFrom(_, _, _, _)
AddFrom(a, b, i, carry) ==
  IF i > Len(a) /\ i > Len(b)
    THEN (IF carry = 0 THEN <<>> ELSE <<carry>>)
    ELSE LET sum == Digit(a, i) + Digit(b, i) + carry
         IN <<sum % Base>> \o AddFrom(a, b, i + 1, sum \div Base)

BigAdd(a, b) == AddFrom(a, b, 1, 0)

RECURSIVE SubFrom(_, _, _, _)
SubFrom(a, b, i, borrow) ==
  IF i > Len(a) THEN <<>>
  ELSE LET d == a[i] - Digit(b, i) - borrow
       IN IF d < 0 THEN <<d + Base>> \o SubFrom(a, b, i + 1, 1)
          ELSE <<d>> \o SubFrom(a, b, i + 1, 0)

\* a - b, for a >= b
BigSub(a, b) == Trim(SubFrom(a, b, 1, 0))

RECURSIVE MulFrom(_, _, _, _)
MulFrom(a, k, i, carry) ==
  IF i > Len(a) THEN (IF carry = 0 THEN <<>> ELSE <<carry>>)
  ELSE LET prod == a[i] * k + carry
       IN <<prod % Base>> \o MulFrom(a, k, i + 1, prod \div Base)

\* a * k, for a digit k
BigMulDigit(a, k) == IF k = 0 THEN <<>> ELSE MulFrom(a, k, 1, 0)

RECURSIVE BigMul(_, _)
BigMul(a, b) ==
  IF a = <<>> \/ b = <<>> THEN <<>>
  ELSE BigAdd(BigMulDigit(a, b[1]), Trim(<<0>> \o BigMul(a, Tail(b))))

\* the number of bits of a digit, and of a digit sequence
RECURSIVE DigitLen(_)
DigitLen(d) == IF d = 0 THEN 0 ELSE 1 + DigitLen(d \div 2)

BitLen(a) == IF a = <<>> THEN 0 ELSE DigitBits * (Len(a) - 1) + DigitLen(a[Len(a)])

\* a * 2^n and a \div 2^n
BigShl(a, n) ==
  LET k == n \div DigitBits
      f == 2 ^ (n % DigitBits)
      up == [i \in 1..(Len(a) + 1) |->
               ((Digit(a, i) * f) % Base) + ((Digit(a, i - 1) * f) \div Base)]
  IN IF a = <<>> THEN <<>> ELSE [i \in 1..k |-> 0] \o Trim(up)

BigShr(a, n) ==
  LET k == n \div DigitBits
      j == n % DigitBits
      rest == IF k >= Len(a) THEN <<>> ELSE SubSeq(a, k + 1, Len(a))
  IN Trim([i \in 1..Len(rest) |->
             (rest[i] \div (2 ^ j))
               + (Digit(rest, i + 1) % (2 ^ j)) * (2 ^ (DigitBits - j))])

\* bit i of a, bit 1 being the least significant
Bit(a, i) == (Digit(a, (i - 1) \div DigitBits + 1) \div 2 ^ ((i - 1) % DigitBits)) % 2

\* 2 * a + bit
Twice(a, bit) ==
  LET d == BigShl(a, 1)
  IN IF bit = 0 THEN d
     ELSE IF d = <<>> THEN <<1>>
     ELSE [d EXCEPT ![1] = @ + 1]

\* Long division of n by d, a digit of n at a time.  DivideDigit takes the
\* bits k..1 of the digit x into the remainder r and gives the quotient
\* digit.  Divide: the digits i..1 of n are still to be taken; past them
\* (i <= 0) the dividend goes on in zero digits, until nothing remains or
\* the quotient q has two bits more than a double keeps.  t is the number of
\* quotient bits after the binary point.
RECURSIVE DivideDigit(_, _, _, _, _)
DivideDigit(d, r, x, k, q) ==
  IF k = 0 THEN [q |-> q, r |-> r]
  ELSE LET r2 == Twice(r, (x \div 2 ^ (k - 1)) % 2)
       IN IF BigCmp(r2, d) >= 0
            THEN DivideDigit(d, BigSub(r2, d), x, k - 1, 2 * q + 1)
            ELSE DivideDigit(d, r2, x, k - 1, 2 * q)

RECURSIVE Divide(_, _, _, _, _)
Divide(n, d, i, q, r) ==
  IF i <= 0 /\ (r = <<>> \/ BitLen(q) >= SignificandBits + 2)
    THEN [q |-> q, r |-> r, t |-> -i * DigitBits]
    ELSE LET s == DivideDigit(d, r, Digit(n, i), DigitBits, 0)
         IN Divide(n, d, i - 1, Trim(<<s.q>> \o q), s.r)

\* the number of zero bits at the low end of a (a # 0)
LowZeros(a) ==
  (CHOOSE i \in 1..BitLen(a) :
     Bit(a, i) = 1 /\ \A j \in 1..(i - 1) : Bit(a, j) = 0) - 1

\* the double [m, e] in its form with m odd
Canonical(m, e) ==
  IF m = <<>> THEN [m |-> <<>>, e |-> 0]
  ELSE LET z == LowZeros(m)
       IN [m |-> BigShr(m, z), e |-> e + z]

\* The double nearest to q * 2^e, or to a number strictly between q * 2^e
\* and (q + 1) * 2^e when inexact: the bits of q beyond the precision are
\* dropped, rounding to nearest, ties to even.
RoundToDouble(q, inexact, e) ==
  LET drop == BitLen(q) - SignificandBits
      kept == BigShr(q, drop)
      rest == BigSub(q, BigShl(kept, drop))
      half == BigShl(<<1>>, drop - 1)
      c == BigCmp(rest, half)
      up == c > 0 \/ (c = 0 /\ (inexact \/ Bit(kept, 1) = 1))
  IN IF drop <= 0 THEN Canonical(q, e)
     ELSE Canonical(IF up THEN BigAdd(kept, <<1>>) ELSE kept, e + drop)

Double(n) == Canonical(BigNat(n), 0)

\* x / y, for y # 0
DoubleDiv(x, y) ==
  LET all == Divide(x.m, y.m, Len(x.m), <<>>, <<>>)
  IN RoundToDouble(all.q, all.r # <<>>, x.e - y.e - all.t)

\* x * y
DoubleMul(x, y) == RoundToDouble(BigMul(x.m, y.m), FALSE, x.e + y.e)

\* x < y
DoubleLess(x, y) ==
  LET e == Min(x.e, y.e)
  IN BigCmp(BigShl(x.m, x.e - e), BigShl(y.m, y.e - e)) < 0

\* Math.round(x): the integer nearest to x, the larger one at a tie
MathRound(x) ==
  IF x.e >= 0 THEN BigValue(BigShl(x.m, x.e))
  ELSE BigValue(BigShr(BigAdd(x.m, BigShl(<<1>>, -x.e - 1)), -x.e))

\* x + y
DoubleAdd(x, y) ==
  RoundToDouble(BigAdd(BigShl(x.m, x.e - Min(x.e, y.e)),
                       BigShl(y.m, y.e - Min(x.e, y.e))),
                FALSE, Min(x.e, y.e))

\* x - y, for y <= x
DoubleSub(x, y) ==
  RoundToDouble(BigSub(BigShl(x.m, x.e - Min(x.e, y.e)),
                       BigShl(y.m, y.e - Min(x.e, y.e))),
                FALSE, Min(x.e, y.e))

\* Times are doubles of either sign: [neg, abs], with abs the magnitude and
\* neg set for a number below zero (a zero has no sign here: -0 and 0
\* compare equal in every use the program makes of them).
Signed(neg, abs) == [neg |-> neg /\ abs.m # <<>>, abs |-> abs]

\* the number an integer literal denotes
Number(n) == Signed(n < 0, Double(Abs(n)))

\* the double a decimal literal of six fractional digits denotes, given
\* as its count of millionths
Decimal(millionths) == Signed(FALSE, DoubleDiv(Double(millionths), Double(1000000)))

\* x + y
SignedAdd(x, y) ==
  IF x.neg = y.neg THEN Signed(x.neg, DoubleAdd(x.abs, y.abs))
  ELSE IF DoubleLess(x.abs, y.abs) THEN Signed(y.neg, DoubleSub(y.abs, x.abs))
  ELSE Signed(x.neg, DoubleSub(x.abs, y.abs))

\* x / y, for y > 0
SignedDiv(x, y) == Signed(x.neg, DoubleDiv(x.abs, y.abs))

\* x < y
SignedLess(x, y) ==
  CASE x.neg /\ ~y.neg -> TRUE
    [] ~x.neg /\ y.neg -> FALSE
    [] x.neg /\ y.neg -> DoubleLess(y.abs, x.abs)
    [] OTHER -> DoubleLess(x.abs, y.abs)

\* Math.min(x, y)
MathMin(x, y) == IF SignedLess(y, x) THEN y ELSE x

\* ------------------------------------------------------------ environment

\* internal formats probed by getWebGLContext; "RGBA" is the WebGL1 one
Channels(fmt) ==
  CASE fmt = "R16F" -> 1
    [] fmt = "RG16F" -> 2
    [] OTHER -> 4

\* What a device can do: which context canvas.getContext gives, which
\* internal formats are framebuffer-complete with the half-float type, and
\* whether the linear-filtering extension exists.
\* Every set of renderable formats is followed once; the filtering extension
\* is present on those with an odd number of them (on WebGL1: absent).
Devices ==
  {[api |-> "none", renderable |-> {}, linear |-> FALSE]}
  \cup {[api |-> "webgl", renderable |-> r, linear |-> FALSE] :
          r \in {{}, {"RGBA"}}}
  \cup {[api |-> "webgl2", renderable |-> r, linear |-> (Cardinality(r) % 2 = 1)] :
          r \in SUBSET {"R16F", "RG16F", "RGBA16F"}}

\* What the page gives the canvas: clientWidth x clientHeight in CSS pixels
\* and window.devicePixelRatio.  Landscape on a 1x screen; portrait on a 3x
\* screen.
Layouts ==
  {[clientWidth |-> 2, clientHeight |-> 1, devicePixelRatio |-> <<1, 1>>],
   [clientWidth |-> 1, clientHeight |-> 2, devicePixelRatio |-> <<3, 1>>]}

\* e.clientX, e.clientY of a pointer or touch event
PointerPositions == {<<0, 0>>, <<1, 0>>}

\* Date.now() - lastTime at a tick, in milliseconds
ElapsedMillis == {16}

\* values Math.random() is followed through (as rationals)
Randoms == {<<1, 4>>}

AllConfigs ==
  {[SIM_RESOLUTION |-> SIM_RESOLUTION,
    DYE_RESOLUTION |-> DYE_RESOLUTION,
    DENSITY_DISSIPATION |-> <<3, 2>>,
    VELOCITY_DISSIPATION |-> <<3, 5>>,
    PRESSURE |-> p,
    PRESSURE_ITERATIONS |-> n,
    CURL |-> 30,
    SPLAT_RADIUS |-> <<3, 10>>,
    SPLAT_FORCE |-> 6000,
    BACK_COLOR |-> [r |-> <<1, 50>>, g |-> <<1, 50>>, b |-> <<1, 50>>],
    PAUSED |-> FALSE] :
      p \in {<<4, 5>>, <<1, 1>>}, n \in 0..MaxIterations}

\* The carry-over factor 1 is followed with no relaxation pass only.
Configs == {c \in AllConfigs : c.PRESSURE = <<1, 1>> => c.PRESSURE_ITERATIONS = 0}

VARIABLES
  pc,               \* where the running job is; "idle" between jobs
  device,           \* the device's capabilities (environment, fixed)
  config,           \* the config table (fixed)
  ext,              \* context.ext: formatRGBA, formatRG, formatR, supportLinearFiltering
  canvas,           \* width, height, clientWidth, clientHeight
  devicePixelRatio, \* window.devicePixelRatio
  gl,               \* the GL context: textures, framebuffers, units, program, uniforms
  pool,             \* dye, velocity, divergence, curl, pressure
  pointer,          \* pointers[0]
  autoSplatTimer,
  dt,               \* update's dt of the running tick, seconds
  resized,          \* what resizeCanvas returned in the running tick
  splatsLeft,       \* iterations left of the initial-splat loop
  ticks,            \* calls of update so far
  scheduled,        \* frame callbacks requested and not yet run
  exception,        \* "none", or the error that ended the script
  trace,            \* GL operations of the call modelled by the last action
  motion            \* history: a move event with non-zero displacement came
                    \* since update last looked at the pointer

vars ==
  <<pc, device, config, ext, canvas, devicePixelRatio, gl, pool, pointer,
    autoSplatTimer, dt, resized, splatsLeft, ticks, scheduled, exception, trace,
    motion>>

\* ------------------------------------------------------ the GL machine state

\* The state the calls below thread through: the GL context, the pool
\* variables, the operations issued so far and a pending exception.
Machine == [gl |-> gl, pool |-> pool, trace |-> <<>>, exception |-> exception]

\* One recorded GL operation.  op: "createTexture", "deleteTexture", "clear",
\* "draw", "swap"; target: the texture (= framebuffer) written, 0 for the
\* canvas; samples: the texture each sampler of the program is bound to;
\* field: the pool variable concerned; front: that variable's .read buffer
\* when the draw was issued (0 if it has none); u: the program's uniforms at
\* the draw.
Op(op, prog, samples, target, field, front, u) ==
  [op |-> op, prog |-> prog, samples |-> samples, target |-> target,
   field |-> field, front |-> front, u |-> u]

\* the textures a recorded draw samples
Reads(e) == {e.samples[s] : s \in DOMAIN e.samples} \ {0}

Log(m, e) == [m EXCEPT !.trace = Append(@, e)]

\* A faulty variant of the clear colour: transparent black.
ClearColorTransparent == <<0, 0, 0, 0>>

\* gl.clearColor(0.0, 0.0, 0.0, 1.0)
ClearColor == <<0, 0, 0, 1>>

\* texImage2D(..., null): WebGL gives a new image zeroes in every channel
ZeroImage(fmt) == [c \in 1..Channels(fmt) |-> 0]

\* gl.clear(COLOR_BUFFER_BIT) writes the clear colour to the channels the
\* attached image has
ClearImage(fmt) == [c \in 1..Channels(fmt) |-> ClearColor[c]]

\* the sampler uniforms of each program's fragment shader
Samplers(prog) ==
  CASE prog = "clear" -> {"uTexture"}
    [] prog = "display" -> {"uTexture"}
    [] prog = "splat" -> {"uTarget"}
    [] prog = "advection" -> {"uVelocity", "uSource"}
    [] prog = "divergence" -> {"uVelocity"}
    [] prog = "curl" -> {"uVelocity"}
    [] prog = "vorticity" -> {"uVelocity", "uCurl"}
    [] prog = "pressure" -> {"uPressure", "uDivergence"}
    [] prog = "gradientSubtract" -> {"uPressure", "uVelocity"}
    [] OTHER -> {}

\* Uniforms of a freshly linked program are zero.  A texel size <<w, h>>
\* stands for (1/w, 1/h); <<0, 0>> is the unset value (0, 0).
InitUniforms ==
  [clear |-> [uTexture |-> 0, value |-> <<0, 1>>],
   display |-> [uTexture |-> 0, backColor |-> <<<<0, 1>>, <<0, 1>>, <<0, 1>>>>],
   splat |-> [uTarget |-> 0, aspectRatio |-> <<0, 1>>,
              point |-> <<<<0, 1>>, <<0, 1>>>>, radius |-> <<0, 1>>],
   advection |-> [uVelocity |-> 0, uSource |-> 0, texelSize |-> <<0, 0>>,
                  dyeTexelSize |-> <<0, 0>>, dt |-> Number(0), dissipation |-> <<0, 1>>],
   divergence |-> [uVelocity |-> 0, texelSize |-> <<0, 0>>],
   curl |-> [uVelocity |-> 0, texelSize |-> <<0, 0>>],
   vorticity |-> [uVelocity |-> 0, uCurl |-> 0, texelSize |-> <<0, 0>>,
                  curl |-> 0, dt |-> Number(0)],
   pressure |-> [uPressure |-> 0, uDivergence |-> 0, texelSize |-> <<0, 0>>],
   gradientSubtract |-> [uPressure |-> 0, uVelocity |-> 0, texelSize |-> <<0, 0>>]]

\* The context right after getContext: no objects, unit 0 active, nothing bound.
InitGL ==
  [textures |-> <<>>, framebuffers |-> <<>>, nextId |-> 1,
   units |-> <<0, 0>>, active |-> 0, program |-> "", uniforms |-> InitUniforms]

\* `let dye, velocity, divergence, curl, pressure;` before initFramebuffers
UndefinedPool ==
  [defined |-> FALSE,
   dye |-> [read |-> 0, write |-> 0, width |-> 0, height |-> 0],
   velocity |-> [read |-> 0, write |-> 0, width |-> 0, height |-> 0],
   divergence |-> [tex |-> 0, width |-> 0, height |-> 0],
   curl |-> [tex |-> 0, width |-> 0, height |-> 0],
   pressure |-> [read |-> 0, write |-> 0, width |-> 0, height |-> 0]]

\* gl.createTexture + bindTexture + texImage2D(null) on the active unit,
\* gl.createFramebuffer + framebufferTexture2D: object nextId of each kind
CreateTarget(m, w, h, fmt, filtering) ==
  LET id == m.gl.nextId
      tex == [fmt |-> fmt, width |-> w, height |-> h, filtering |-> filtering,
              val |-> ZeroImage(fmt), by |-> "texImage2D"]
  IN Log([m EXCEPT !.gl.textures = (id :> tex) @@ @,
                   !.gl.framebuffers = (id :> id) @@ @,
                   !.gl.nextId = id + 1,
                   !.gl.units[m.gl.active + 1] = id],
         Op("createTexture", "", <<>>, id, "", 0, <<>>))

\* gl.deleteTexture + gl.deleteFramebuffer: the objects die and the texture
\* leaves every unit it is bound to
DeleteTarget(m, id) ==
  Log([m EXCEPT !.gl.textures = [t \in DOMAIN @ \ {id} |-> @[t]],
                !.gl.framebuffers = [t \in DOMAIN @ \ {id} |-> @[t]],
                !.gl.units = [k \in DOMAIN @ |-> IF @[k] = id THEN 0 ELSE @[k]]],
      Op("deleteTexture", "", <<>>, id, "", 0, <<>>))

\* ------------------------------------------------- capability negotiation

\* A faulty variant of supportRenderTextureFormat: the probe objects are
\* deleted only when the framebuffer was complete.
supportRenderTextureFormatLeaky(m, internalFormat) ==
  [m |-> IF internalFormat \in device.renderable
           THEN DeleteTarget(CreateTarget(m, 4, 4, internalFormat, "NEAREST"), m.gl.nextId)
           ELSE CreateTarget(m, 4, 4, internalFormat, "NEAREST"),
   ok |-> internalFormat \in device.renderable]

\* supportRenderTextureFormat: a 4x4 probe texture and framebuffer are made,
\* the framebuffer status is read, both are deleted; the answer is the
\* device's.
supportRenderTextureFormat(m, internalFormat) ==
  [m |-> DeleteTarget(CreateTarget(m, 4, 4, internalFormat, "NEAREST"), m.gl.nextId),
   ok |-> internalFormat \in device.renderable]

\* A faulty variant of getSupportedFormat: no wider format is tried.
getSupportedFormatNoFallback(m, internalFormat) ==
  LET probe == supportRenderTextureFormat(m, internalFormat)
  IN [m |-> probe.m,
      format |-> IF probe.ok THEN internalFormat ELSE "null"]

\* getSupportedFormat: the format itself when renderable, else the next
\* wider one (R16F -> RG16F -> RGBA16F), else null
RECURSIVE getSupportedFormat(_, _)
getSupportedFormat(m, internalFormat) ==
  LET probe == supportRenderTextureFormat(m, internalFormat)
  IN IF ~probe.ok
       THEN CASE internalFormat = "R16F" -> getSupportedFormat(probe.m, "RG16F")
              [] internalFormat = "RG16F" -> getSupportedFormat(probe.m, "RGBA16F")
              [] OTHER -> [m |-> probe.m, format |-> "null"]
       ELSE [m |-> probe.m, format |-> internalFormat]

\* getWebGLContext, after a context was obtained: the three format tiers
getWebGLContext(m) ==
  IF device.api = "webgl2"
    THEN LET rgba == getSupportedFormat(m, "RGBA16F")
             rg == getSupportedFormat(rgba.m, "RG16F")
             r == getSupportedFormat(rg.m, "R16F")
         IN [m |-> r.m,
             ext |-> [formatRGBA |-> rgba.format, formatRG |-> rg.format,
                      formatR |-> r.format,
                      supportLinearFiltering |-> device.linear]]
    ELSE LET rgba == getSupportedFormat(m, "RGBA")
         IN [m |-> rgba.m,
             ext |-> [formatRGBA |-> rgba.format, formatRG |-> rgba.format,
                      formatR |-> rgba.format,
                      supportLinearFiltering |-> device.linear]]

\* ------------------------------------------------------------ canvas size

\* Math.min(window.devicePixelRatio || 1, 2)
EffectiveDpr(ratio) ==
  LET d == IF ratio[1] = 0 THEN <<1, 1>> ELSE ratio
  IN IF RatLess(<<MaxDevicePixelRatio, 1>>, d) THEN <<MaxDevicePixelRatio, 1>> ELSE d

\* A faulty variant of resizeCanvas: the size is assigned and a change is
\* reported at every call.
resizeCanvasAlways(c, ratio) ==
  LET dpr == EffectiveDpr(ratio)
  IN [canvas |-> [c EXCEPT !.width = Floor(RatMul(<<c.clientWidth, 1>>, dpr)),
                           !.height = Floor(RatMul(<<c.clientHeight, 1>>, dpr))],
      changed |-> TRUE]

\* resizeCanvas: the canvas after the call, and what the call returns
resizeCanvas(c, ratio) ==
  LET dpr == EffectiveDpr(ratio)
      w == Floor(RatMul(<<c.clientWidth, 1>>, dpr))
      h == Floor(RatMul(<<c.clientHeight, 1>>, dpr))
  IN IF c.width # w \/ c.height # h
       THEN [canvas |-> [c EXCEPT !.width = w, !.height = h], changed |-> TRUE]
       ELSE [canvas |-> c, changed |-> FALSE]

\* if (aspectRatio < 1) aspectRatio = 1.0 / aspectRatio;
Upright(aspectRatio) ==
  IF DoubleLess(aspectRatio, Double(1))
    THEN DoubleDiv(Double(1), aspectRatio)
    ELSE aspectRatio

\* return gl.drawingBufferWidth > gl.drawingBufferHeight ? ... : ...
Assigned(min, max, drawingBufferWidth, drawingBufferHeight) ==
  IF drawingBufferWidth > drawingBufferHeight
    THEN [width |-> max, height |-> min]
    ELSE [width |-> min, height |-> max]

\* getResolution, with gl.drawingBufferWidth/Height = canvas.width/height
getResolution(resolution, drawingBufferWidth, drawingBufferHeight) ==
  Assigned(MathRound(Double(resolution)),
           MathRound(DoubleMul(Double(resolution),
                               Upright(DoubleDiv(Double(drawingBufferWidth),
                                                 Double(drawingBufferHeight))))),
           drawingBufferWidth, drawingBufferHeight)

\* ------------------------------------------------------- render-target pool

\* createFBO: a new texture and framebuffer, cleared with gl.clear; the
\* returned object is known by its texture's id
createFBO(m, w, h, internalFormat, filtering) ==
  LET id == m.gl.nextId
      made == CreateTarget([m EXCEPT !.gl.active = 0], w, h, internalFormat, filtering)
  IN Log([made EXCEPT !.gl.textures[id].val = ClearImage(internalFormat),
                      !.gl.textures[id].by = "clear"],
         Op("clear", "", <<>>, id, "", 0, <<>>))

\* createDoubleFBO: fbo1 (read) and fbo2 (write), made in this order
createDoubleFBO(m, w, h, internalFormat, filtering) ==
  createFBO(createFBO(m, w, h, internalFormat, filtering), w, h, internalFormat, filtering)

DoubleFBO(first, w, h) == [read |-> first, write |-> first + 1, width |-> w, height |-> h]

SingleFBO(id, w, h) == [tex |-> id, width |-> w, height |-> h]

\* the targets of one pool generation: two for each of dye, velocity and
\* pressure, one for each of divergence and curl
PoolTargets == 2 + 2 + 1 + 1 + 2

\* A faulty variant of the assignments: an existing pressure pair is kept.
AssignPoolKeepPressure(m, simRes, dyeRes, e) ==
  LET filtering == IF e.supportLinearFiltering THEN "LINEAR" ELSE "NEAREST"
      n == m.gl.nextId
      m1 == createDoubleFBO(m, dyeRes.width, dyeRes.height, e.formatRGBA, filtering)
      m2 == createDoubleFBO(m1, simRes.width, simRes.height, e.formatRG, filtering)
      m3 == createFBO(m2, simRes.width, simRes.height, e.formatR, "NEAREST")
      m4 == createFBO(m3, simRes.width, simRes.height, e.formatR, "NEAREST")
      m5 == createDoubleFBO(m4, simRes.width, simRes.height, e.formatR, "NEAREST")
  IN [m5 EXCEPT !.pool =
        [defined |-> TRUE,
         dye |-> DoubleFBO(n, dyeRes.width, dyeRes.height),
         velocity |-> DoubleFBO(n + 2, simRes.width, simRes.height),
         divergence |-> SingleFBO(n + 4, simRes.width, simRes.height),
         curl |-> SingleFBO(n + 5, simRes.width, simRes.height),
         pressure |-> IF m.pool.defined THEN m.pool.pressure
                      ELSE DoubleFBO(n + 6, simRes.width, simRes.height)]]

\* The five assignments of initFramebuffers: dye, velocity, divergence, curl
\* and pressure get newly created targets, made in this order.
AssignPool(m, simRes, dyeRes, e) ==
  LET filtering == IF e.supportLinearFiltering THEN "LINEAR" ELSE "NEAREST"
      n == m.gl.nextId
      m1 == createDoubleFBO(m, dyeRes.width, dyeRes.height, e.formatRGBA, filtering)
      m2 == createDoubleFBO(m1, simRes.width, simRes.height, e.formatRG, filtering)
      m3 == createFBO(m2, simRes.width, simRes.height, e.formatR, "NEAREST")
      m4 == createFBO(m3, simRes.width, simRes.height, e.formatR, "NEAREST")
      m5 == createDoubleFBO(m4, simRes.width, simRes.height, e.formatR, "NEAREST")
  IN [m5 EXCEPT !.pool =
        [defined |-> TRUE,
         dye |-> DoubleFBO(n, dyeRes.width, dyeRes.height),
         velocity |-> DoubleFBO(n + 2, simRes.width, simRes.height),
         divergence |-> SingleFBO(n + 4, simRes.width, simRes.height),
         curl |-> SingleFBO(n + 5, simRes.width, simRes.height),
         pressure |-> DoubleFBO(n + 6, simRes.width, simRes.height)]]

\* initFramebuffers: nothing without a 4-channel (or 2-channel) format, else
\* the pool is assigned at getResolution of the two configured resolutions
initFramebuffers(m, c, cfg, e) ==
  IF e.formatRGBA = "null" \/ e.formatRG = "null"
    THEN m
    ELSE AssignPool(m,
                    getResolution(cfg.SIM_RESOLUTION, c.width, c.height),
                    getResolution(cfg.DYE_RESOLUTION, c.width, c.height),
                    e)

\* --------------------------------------------------------- GL instructions
\* The statements of splat, step and render, as data.  A pool variable is
\* named (field, side), side being "read", "write" or (a single target)
\* "tex", and is looked up when the statement runs.

\* program.bind()
Bind(prog) == [i |-> "bind", prog |-> prog]

\* gl.uniform*(prog.uniforms.name, val), val not a texture
Uniform(prog, name, val) == [i |-> "uniform", prog |-> prog, name |-> name, val |-> val]

\* field.side.attach(unit)
Attach(field, side, unit) == [i |-> "attach", field |-> field, side |-> side, unit |-> unit]

\* blit(field.side); blit(null) is Blit("null", "")
Blit(field, side) == [i |-> "blit", field |-> field, side |-> side]

\* field.swap()
Swap(field) == [i |-> "swap", field |-> field]

\* gl.uniform1i(prog.uniforms.name, field.side.attach(unit))
UniformAttach(prog, name, field, side, unit) ==
  <<Attach(field, side, unit), Uniform(prog, name, unit)>>

TargetOf(m, field, side) ==
  IF field = "null" THEN 0
  ELSE IF side = "tex" THEN m.pool[field].tex
  ELSE m.pool[field][side]

\* the texture each sampler of the bound program reads: the one bound to
\* the unit the sampler uniform names
Sampled(m) ==
  [s \in Samplers(m.gl.program) |-> m.gl.units[m.gl.uniforms[m.gl.program][s] + 1]]

\* What a draw leaves in its target.  The clear program writes
\* value * texture, which is the source's data when value is 1; every
\* other result is computed data of the program.
Shade(m, old) ==
  LET prog == m.gl.program
      u == m.gl.uniforms[prog]
      src == m.gl.units[u.uTexture + 1]
  IN IF prog = "clear" /\ u.value = <<1, 1>> /\ src \in DOMAIN m.gl.textures
          /\ m.gl.textures[src].fmt = old.fmt
       THEN [old EXCEPT !.val = m.gl.textures[src].val, !.by = m.gl.textures[src].by]
       ELSE [old EXCEPT !.val = <<>>, !.by = prog]

\* blit(target): bind the target's framebuffer (null: the canvas) and draw
\* with the bound program.  A draw whose target is sampled is a feedback
\* loop, which WebGL rejects without writing.
DoBlit(m, field, side) ==
  LET target == TargetOf(m, field, side)
      front == IF side = "write" THEN m.pool[field].read ELSE 0
      e == Op("draw", m.gl.program, Sampled(m), target, field, front,
              m.gl.uniforms[m.gl.program])
  IN IF target = 0 \/ target \in Reads(e)
       THEN Log(m, e)
       ELSE Log([m EXCEPT !.gl.textures[target] = Shade(m, @)], e)

\* swap () { const t = fbo1; fbo1 = fbo2; fbo2 = t; }
DoSwap(m, field) ==
  Log([m EXCEPT !.pool[field].read = m.pool[field].write,
                !.pool[field].write = m.pool[field].read],
      Op("swap", "", <<>>, 0, field, 0, <<>>))

\* One statement.  Reading a property of an undefined pool variable throws
\* a TypeError; gl.uniform* on a location of a program that is not the
\* bound one is an INVALID_OPERATION and changes nothing.
Exec(m, ins) ==
  CASE ins.i = "bind" ->
         [m EXCEPT !.gl.program = ins.prog]
    [] ins.i = "uniform" ->
         IF m.gl.program = ins.prog
           THEN [m EXCEPT !.gl.uniforms[ins.prog][ins.name] = ins.val]
           ELSE m
    [] ins.i = "attach" ->
         IF ~m.pool.defined
           THEN [m EXCEPT !.exception = "TypeError"]
           ELSE [m EXCEPT !.gl.active = ins.unit,
                          !.gl.units[ins.unit + 1] = TargetOf(m, ins.field, ins.side)]
    [] ins.i = "blit" ->
         IF ins.field # "null" /\ ~m.pool.defined
           THEN [m EXCEPT !.exception = "TypeError"]
           ELSE DoBlit(m, ins.field, ins.side)
    [] ins.i = "swap" ->
         IF ~m.pool.defined
           THEN [m EXCEPT !.exception = "TypeError"]
           ELSE DoSwap(m, ins.field)

\* the statements in order; an exception ends the run
RECURSIVE Run(_, _)
Run(m, code) ==
  IF code = <<>> \/ m.exception # "none"
    THEN m
    ELSE Run(Exec(m, Head(code)), Tail(code))

RECURSIVE Repeat(_, _)
Repeat(n, code) == IF n <= 0 THEN <<>> ELSE code \o Repeat(n - 1, code)

TexelSize(f) == <<f.width, f.height>>

\* A faulty variant of correctRadius: the radius as it is.
correctRadiusUncorrected(radius, c) == radius

\* correctRadius
correctRadius(radius, c) ==
  LET aspectRatio == Rat(c.width, c.height)
  IN IF RatLess(<<1, 1>>, aspectRatio) THEN RatMul(radius, aspectRatio) ELSE radius

\* A faulty variant of splat: the dye buffers are not swapped after the dye
\* pass.
splatDyeUnswapped(c, cfg, x, y) ==
  <<Bind("splat")>>
  \o UniformAttach("splat", "uTarget", "velocity", "read", 0)
  \o <<Uniform("splat", "aspectRatio", Rat(c.width, c.height)),
       Uniform("splat", "point", <<x, y>>),
       Uniform("splat", "radius", correctRadius(RatDiv(cfg.SPLAT_RADIUS, <<100, 1>>), c)),
       Blit("velocity", "write"),
       Swap("velocity")>>
  \o UniformAttach("splat", "uTarget", "dye", "read", 0)
  \o <<Blit("dye", "write")>>

\* A faulty variant of splat: the velocity pass binds velocity.read to unit
\* 0 but points uTarget at unit 1, which it does not bind.
splatStaleUnit(c, cfg, x, y) ==
  <<Bind("splat"),
    Attach("velocity", "read", 0),
    Uniform("splat", "uTarget", 1),
    Uniform("splat", "aspectRatio", Rat(c.width, c.height)),
    Uniform("splat", "point", <<x, y>>),
    Uniform("splat", "radius", correctRadius(RatDiv(cfg.SPLAT_RADIUS, <<100, 1>>), c)),
    Blit("velocity", "write"),
    Swap("velocity")>>
  \o UniformAttach("splat", "uTarget", "dye", "read", 0)
  \o <<Blit("dye", "write"),
       Swap("dye")>>

\* A faulty variant of splat: the aspectRatio uniform is height / width.
splatInverseAspect(c, cfg, x, y) ==
  <<Bind("splat")>>
  \o UniformAttach("splat", "uTarget", "velocity", "read", 0)
  \o <<Uniform("splat", "aspectRatio", Rat(c.height, c.width)),
       Uniform("splat", "point", <<x, y>>),
       Uniform("splat", "radius", correctRadius(RatDiv(cfg.SPLAT_RADIUS, <<100, 1>>), c)),
       Blit("velocity", "write"),
       Swap("velocity")>>
  \o UniformAttach("splat", "uTarget", "dye", "read", 0)
  \o <<Blit("dye", "write"),
       Swap("dye")>>

\* splat (x, y, dx, dy, color); the colour uniforms are not followed
splat(c, cfg, x, y) ==
  <<Bind("splat")>>
  \o UniformAttach("splat", "uTarget", "velocity", "read", 0)
  \o <<Uniform("splat", "aspectRatio", Rat(c.width, c.height)),
       Uniform("splat", "point", <<x, y>>),
       Uniform("splat", "radius", correctRadius(RatDiv(cfg.SPLAT_RADIUS, <<100, 1>>), c)),
       Blit("velocity", "write"),
       Swap("velocity")>>
  \o UniformAttach("splat", "uTarget", "dye", "read", 0)
  \o <<Blit("dye", "write"),
       Swap("dye")>>

\* step (dt), stage by stage
stepCurl(p) ==
  <<Bind("curl"),
    Uniform("curl", "texelSize", TexelSize(p.velocity))>>
  \o UniformAttach("curl", "uVelocity", "velocity", "read", 0)
  \o <<Blit("curl", "tex")>>

stepVorticity(p, cfg, stepDt) ==
  <<Bind("vorticity"),
    Uniform("vorticity", "texelSize", TexelSize(p.velocity))>>
  \o UniformAttach("vorticity", "uVelocity", "velocity", "read", 0)
  \o UniformAttach("vorticity", "uCurl", "curl", "tex", 1)
  \o <<Uniform("vorticity", "curl", cfg.CURL),
       Uniform("vorticity", "dt", stepDt),
       Blit("velocity", "write"),
       Swap("velocity")>>

stepDivergence(p) ==
  <<Bind("divergence"),
    Uniform("divergence", "texelSize", TexelSize(p.velocity))>>
  \o UniformAttach("divergence", "uVelocity", "velocity", "read", 0)
  \o <<Blit("divergence", "tex")>>

stepClearPressure(cfg) ==
  <<Bind("clear")>>
  \o UniformAttach("clear", "uTexture", "pressure", "read", 0)
  \o <<Uniform("clear", "value", cfg.PRESSURE),
       Blit("pressure", "write"),
       Swap("pressure")>>

\* A faulty variant of the pressure solve: one sweep too many.
stepPressureSolveExtraSweep(p, cfg) ==
  <<Bind("pressure"),
    Uniform("pressure", "texelSize", TexelSize(p.velocity))>>
  \o UniformAttach("pressure", "uDivergence", "divergence", "tex", 0)
  \o Repeat(cfg.PRESSURE_ITERATIONS + 1,
            UniformAttach("pressure", "uPressure", "pressure", "read", 1)
            \o <<Blit("pressure", "write"),
                 Swap("pressure")>>)

\* Pressure solve (Jacobi iteration)
stepPressureSolve(p, cfg) ==
  <<Bind("pressure"),
    Uniform("pressure", "texelSize", TexelSize(p.velocity))>>
  \o UniformAttach("pressure", "uDivergence", "divergence", "tex", 0)
  \o Repeat(cfg.PRESSURE_ITERATIONS,
            UniformAttach("pressure", "uPressure", "pressure", "read", 1)
            \o <<Blit("pressure", "write"),
                 Swap("pressure")>>)

stepGradientSubtract(p) ==
  <<Bind("gradientSubtract"),
    Uniform("gradientSubtract", "texelSize", TexelSize(p.velocity))>>
  \o UniformAttach("gradientSubtract", "uPressure", "pressure", "read", 0)
  \o UniformAttach("gradientSubtract", "uVelocity", "velocity", "read", 1)
  \o <<Blit("velocity", "write"),
       Swap("velocity")>>

\* A faulty variant of the velocity advection: drawn into the buffer it
\* samples.
stepAdvectVelocityInPlace(p, cfg, e, stepDt) ==
  <<Bind("advection"),
    Uniform("advection", "texelSize", TexelSize(p.velocity))>>
  \o (IF ~e.supportLinearFiltering
        THEN <<Uniform("advection", "dyeTexelSize", TexelSize(p.velocity))>>
        ELSE <<>>)
  \o <<Attach("velocity", "read", 0),
       Uniform("advection", "uVelocity", 0),
       Uniform("advection", "uSource", 0),
       Uniform("advection", "dt", stepDt),
       Uniform("advection", "dissipation", cfg.VELOCITY_DISSIPATION),
       Blit("velocity", "read"),
       Swap("velocity")>>

stepAdvectVelocity(p, cfg, e, stepDt) ==
  <<Bind("advection"),
    Uniform("advection", "texelSize", TexelSize(p.velocity))>>
  \o (IF ~e.supportLinearFiltering
        THEN <<Uniform("advection", "dyeTexelSize", TexelSize(p.velocity))>>
        ELSE <<>>)
  \o <<Attach("velocity", "read", 0),
       Uniform("advection", "uVelocity", 0),
       Uniform("advection", "uSource", 0),
       Uniform("advection", "dt", stepDt),
       Uniform("advection", "dissipation", cfg.VELOCITY_DISSIPATION),
       Blit("velocity", "write"),
       Swap("velocity")>>

\* A faulty variant of the dye advection: the velocity is sampled from the
\* buffer the velocity advection read.
stepAdvectDyeStale(p, cfg) ==
  <<Uniform("advection", "dyeTexelSize", TexelSize(p.dye))>>
  \o UniformAttach("advection", "uVelocity", "velocity", "write", 0)
  \o UniformAttach("advection", "uSource", "dye", "read", 1)
  \o <<Uniform("advection", "dissipation", cfg.DENSITY_DISSIPATION),
       Blit("dye", "write"),
       Swap("dye")>>

stepAdvectDye(p, cfg) ==
  <<Uniform("advection", "dyeTexelSize", TexelSize(p.dye))>>
  \o UniformAttach("advection", "uVelocity", "velocity", "read", 0)
  \o UniformAttach("advection", "uSource", "dye", "read", 1)
  \o <<Uniform("advection", "dissipation", cfg.DENSITY_DISSIPATION),
       Blit("dye", "write"),
       Swap("dye")>>

\* A faulty variant of step: the divergence is taken before the vorticity
\* confinement.
stepDivergenceFirst(p, cfg, e, stepDt) ==
  stepCurl(p)
  \o stepDivergence(p)
  \o stepVorticity(p, cfg, stepDt)
  \o stepClearPressure(cfg)
  \o stepPressureSolve(p, cfg)
  \o stepGradientSubtract(p)
  \o stepAdvectVelocity(p, cfg, e, stepDt)
  \o stepAdvectDye(p, cfg)

step(p, cfg, e, stepDt) ==
  stepCurl(p)
  \o stepVorticity(p, cfg, stepDt)
  \o stepDivergence(p)
  \o stepClearPressure(cfg)
  \o stepPressureSolve(p, cfg)
  \o stepGradientSubtract(p)
  \o stepAdvectVelocity(p, cfg, e, stepDt)
  \o stepAdvectDye(p, cfg)

\* A faulty variant of render: the dye pair is swapped after the draw, as
\* after a pass of step.
renderSwapping(cfg) ==
  <<Bind("display"),
    Uniform("display", "backColor",
            <<cfg.BACK_COLOR.r, cfg.BACK_COLOR.g, cfg.BACK_COLOR.b>>)>>
  \o UniformAttach("display", "uTexture", "dye", "read", 0)
  \o <<Blit("null", ""), Swap("dye")>>

\* render (target), called with null
render(cfg) ==
  <<Bind("display"),
    Uniform("display", "backColor",
            <<cfg.BACK_COLOR.r, cfg.BACK_COLOR.g, cfg.BACK_COLOR.b>>)>>
  \o UniformAttach("display", "uTexture", "dye", "read", 0)
  \o <<Blit("null", "")>>

\* ---------------------------------------------------------------- actions

Init ==
  /\ pc = "script"
  /\ device \in Devices
  /\ config \in Configs
  /\ ext = [formatRGBA |-> "null", formatRG |-> "null", formatR |-> "null",
            supportLinearFiltering |-> FALSE]
  /\ canvas = [width |-> 300, height |-> 150, clientWidth |-> 2, clientHeight |-> 1]
  /\ devicePixelRatio = <<1, 1>>
  /\ gl = InitGL
  /\ pool = UndefinedPool
  /\ pointer = [texcoordX |-> <<0, 1>>, texcoordY |-> <<0, 1>>,
                down |-> FALSE, moved |-> FALSE]
  /\ autoSplatTimer = Number(0)
  /\ dt = Number(0)
  /\ resized = FALSE
  /\ splatsLeft = 0
  /\ ticks = 0
  /\ scheduled = 0
  /\ exception = "none"
  /\ trace = <<>>
  /\ motion = FALSE

\* what an action takes from the machine state a call leaves
Leave(m) ==
  /\ gl' = m.gl
  /\ pool' = m.pool
  /\ exception' = m.exception
  /\ trace' = m.trace

\* const context = getWebGLContext(canvas); if (!context) return;
Negotiate ==
  /\ pc = "script"
  /\ IF device.api = "none"
       THEN /\ pc' = "inert"
            /\ UNCHANGED <<ext, gl, pool, exception, trace>>
       ELSE LET got == getWebGLContext(Machine)
            IN /\ pc' = "setup"
               /\ ext' = got.ext
               /\ Leave(got.m)
  /\ UNCHANGED <<device, config, canvas, devicePixelRatio, pointer, autoSplatTimer,
                 dt, resized, splatsLeft, ticks, scheduled, motion>>

\* resizeCanvas(); initFramebuffers();  (then the listeners are added)
Setup ==
  /\ pc = "setup"
  /\ LET r == resizeCanvas(canvas, devicePixelRatio)
     IN /\ canvas' = r.canvas
        /\ resized' = r.changed
        /\ Leave(initFramebuffers(Machine, r.canvas, config, ext))
  /\ pc' = "initsplat"
  /\ splatsLeft' = InitialSplats
  /\ UNCHANGED <<device, config, ext, devicePixelRatio, pointer, autoSplatTimer,
                 dt, ticks, scheduled, motion>>

\* one iteration of the initial-splat loop; after the last one, update()
InitialSplatAt(x, y) ==
  /\ pc = "initsplat"
  /\ LET m == Run(Machine, splat(canvas, config, x, y))
     IN /\ Leave(m)
        /\ pc' = IF m.exception # "none" THEN "crashed"
                 ELSE IF splatsLeft = 1 THEN "update"
                 ELSE "initsplat"
  /\ splatsLeft' = splatsLeft - 1
  /\ UNCHANGED <<device, config, ext, canvas, devicePixelRatio, pointer,
                 autoSplatTimer, dt, resized, ticks, scheduled, motion>>

InitialSplat == \E x \in Randoms, y \in Randoms : InitialSplatAt(x, y)

\* the double 0.016667
MaxDt == Decimal(MaxDtMicros)

\* the double 1000
Thousand == Number(1000)

\* A faulty variant of update's dt: the elapsed time as it is.
updateDtUnclamped(elapsed) == SignedDiv(Number(elapsed), Thousand)

\* let dt = (now - lastTime) / 1000; dt = Math.min(dt, 0.016667);
\* with elapsed = now - lastTime, in milliseconds
updateDt(elapsed) ==
  MathMin(SignedDiv(Number(elapsed), Thousand), MaxDt)

\* The head of update when Date.now() reads `elapsed` past lastTime (which
\* is not kept: the reading's distance from it is the input): dt, lastTime
\* = now, then if (resizeCanvas()) { initFramebuffers(); }
UpdateBegin(elapsed) ==
  /\ dt' = updateDt(elapsed)
  /\ LET r == resizeCanvas(canvas, devicePixelRatio)
     IN /\ canvas' = r.canvas
        /\ resized' = r.changed
        /\ IF r.changed
             THEN Leave(initFramebuffers(Machine, r.canvas, config, ext))
             ELSE Leave(Machine)
  /\ pc' = "pointer"
  /\ UNCHANGED <<device, config, ext, devicePixelRatio, pointer, autoSplatTimer,
                 splatsLeft, motion>>

UpdateHead ==
  /\ \E elapsed \in ElapsedMillis : UpdateBegin(elapsed)
  /\ ticks' = ticks + 1

\* update(): the call that ends the script
FirstUpdate ==
  /\ pc = "update"
  /\ UpdateHead
  /\ UNCHANGED scheduled

\* the browser runs the requested frame callback
FrameCallback ==
  /\ pc = "idle"
  /\ scheduled > 0
  /\ ticks < MaxTicks
  /\ scheduled' = scheduled - 1
  /\ UpdateHead

\* A faulty variant of the consumption: the flag is left as it is.
ConsumePointerKeepFlag(p) == p

\* p.moved = false;
ConsumePointer(p) == [p EXCEPT !.moved = FALSE]

\* if (p.moved) { p.moved = false; ...; splat(p.texcoordX, p.texcoordY, ...); }
UpdatePointer ==
  /\ pc = "pointer"
  /\ IF pointer.moved
       THEN /\ pointer' = ConsumePointer(pointer)
            /\ Leave(Run(Machine, splat(canvas, config, pointer.texcoordX, pointer.texcoordY)))
       ELSE /\ pointer' = pointer
            /\ Leave(Machine)
  /\ motion' = FALSE
  /\ pc' = "ambient"
  /\ UNCHANGED <<device, config, ext, canvas, devicePixelRatio, autoSplatTimer,
                 dt, resized, splatsLeft, ticks, scheduled>>

\* the double 0.4
AutoSplatThreshold == Decimal(AutoSplatThresholdMicros)

\* autoSplatTimer += dt; if (autoSplatTimer > 0.4)
autoSplatDue(timer, d) == SignedLess(AutoSplatThreshold, SignedAdd(timer, d))

\* A faulty variant of the timer: it is never set back.
autoSplatTimerKept(timer, d) == SignedAdd(timer, d)

\* autoSplatTimer after autoSplat(d): the sum, or 0 when a splat is due
autoSplatTimerAfter(timer, d) ==
  IF autoSplatDue(timer, d) THEN Number(0) ELSE SignedAdd(timer, d)

\* autoSplat(dt)
UpdateAmbient ==
  /\ pc = "ambient"
  /\ autoSplatTimer' = autoSplatTimerAfter(autoSplatTimer, dt)
  /\ IF autoSplatDue(autoSplatTimer, dt)
       THEN \E x \in Randoms, y \in Randoms :
              Leave(Run(Machine, splat(canvas, config, x, y)))
       ELSE Leave(Machine)
  /\ pc' = "step"
  /\ UNCHANGED <<device, config, ext, canvas, devicePixelRatio, pointer,
                 dt, resized, splatsLeft, ticks, scheduled, motion>>

\* A faulty variant of the step phase: the display pass is drawn before
\* the step.
UpdateStepRenderFirst ==
  /\ pc = "step"
  /\ Leave(Run(Machine, render(config) \o step(pool, config, ext, dt)))
  /\ pc' = "render"
  /\ UNCHANGED <<device, config, ext, canvas, devicePixelRatio, pointer,
                 autoSplatTimer, dt, resized, splatsLeft, ticks, scheduled,
                 motion>>

\* step(dt)
UpdateStep ==
  /\ pc = "step"
  /\ Leave(Run(Machine, step(pool, config, ext, dt)))
  /\ pc' = "render"
  /\ UNCHANGED <<device, config, ext, canvas, devicePixelRatio, pointer,
                 autoSplatTimer, dt, resized, splatsLeft, ticks, scheduled,
                 motion>>

\* A faulty variant of the end of update: no callback is requested while
\* config.PAUSED is set.
UpdateRenderPausable ==
  /\ pc = "render"
  /\ Leave(Run(Machine, render(config)))
  /\ scheduled' = (IF config.PAUSED THEN scheduled ELSE scheduled + 1)
  /\ pc' = "idle"
  /\ UNCHANGED <<device, config, ext, canvas, devicePixelRatio, pointer,
                 autoSplatTimer, dt, resized, splatsLeft, ticks, motion>>

\* render(null); requestAnimationFrame(update); and the job ends
UpdateRender ==
  /\ pc = "render"
  /\ Leave(Run(Machine, render(config)))
  /\ scheduled' = scheduled + 1
  /\ pc' = "idle"
  /\ UNCHANGED <<device, config, ext, canvas, devicePixelRatio, pointer,
                 autoSplatTimer, dt, resized, splatsLeft, ticks, motion>>

\* correctDeltaX, correctDeltaY
correctDeltaX(delta, c) ==
  LET aspectRatio == Rat(c.width, c.height)
  IN IF RatLess(aspectRatio, <<1, 1>>) THEN RatMul(delta, aspectRatio) ELSE delta

correctDeltaY(delta, c) ==
  LET aspectRatio == Rat(c.width, c.height)
  IN IF RatLess(<<1, 1>>, aspectRatio) THEN RatDiv(delta, aspectRatio) ELSE delta

\* the body shared by the pointermove and touchmove listeners
\* (prevTexcoordX/Y are read nowhere else; deltaX/Y only feed the colour
\* uniform of the next splat, which is not followed: neither is kept)
MoveHandler(p, c, clientX, clientY) ==
  LET x == Rat(clientX, c.clientWidth)
      y == RatSub(<<1, 1>>, Rat(clientY, c.clientHeight))
      dx == correctDeltaX(RatSub(x, p.texcoordX), c)
      dy == correctDeltaY(RatSub(y, p.texcoordY), c)
  IN [texcoordX |-> x, texcoordY |-> y, down |-> TRUE, moved |-> (Abs(dx[1]) > 0 \/ Abs(dy[1]) > 0)]

\* The listeners exist once the script has passed line 542, also when it
\* died in the initial splats.
ListenersAdded == pc \in {"idle", "crashed"}

\* A faulty variant of the pointermove listener: it draws the splat itself.
PointerMoveSplatting ==
  /\ ListenersAdded
  /\ \E pos \in PointerPositions :
       /\ pointer' = MoveHandler(pointer, canvas, pos[1], pos[2])
       /\ Leave(Run(Machine, splat(canvas, config, pointer'.texcoordX, pointer'.texcoordY)))
  /\ motion' = (motion \/ pointer'.moved)
  /\ UNCHANGED <<pc, device, config, ext, canvas, devicePixelRatio,
                 autoSplatTimer, dt, resized, splatsLeft, ticks, scheduled>>

PointerMove ==
  /\ ListenersAdded
  /\ \E pos \in PointerPositions :
       pointer' = MoveHandler(pointer, canvas, pos[1], pos[2])
  /\ motion' = (motion \/ pointer'.moved)
  /\ UNCHANGED <<pc, device, config, ext, canvas, devicePixelRatio, gl, pool,
                 autoSplatTimer, dt, resized, splatsLeft, ticks, scheduled,
                 exception, trace>>

TouchMove ==
  /\ ListenersAdded
  /\ \E touch \in PointerPositions :
       pointer' = MoveHandler(pointer, canvas, touch[1], touch[2])
  /\ motion' = (motion \/ pointer'.moved)
  /\ UNCHANGED <<pc, device, config, ext, canvas, devicePixelRatio, gl, pool,
                 autoSplatTimer, dt, resized, splatsLeft, ticks, scheduled,
                 exception, trace>>

\* the host page lays the canvas out anew, or the window moves to a screen
\* of another pixel ratio
WindowResize ==
  /\ pc = "idle"
  /\ \E l \in Layouts :
       /\ canvas' = [canvas EXCEPT !.clientWidth = l.clientWidth,
                                   !.clientHeight = l.clientHeight]
       /\ devicePixelRatio' = l.devicePixelRatio
  /\ UNCHANGED <<pc, device, config, ext, gl, pool, pointer, autoSplatTimer, dt,
                 resized, splatsLeft, ticks, scheduled, exception, trace,
                 motion>>

Next ==
  \/ Negotiate
  \/ Setup
  \/ InitialSplat
  \/ FirstUpdate
  \/ UpdatePointer
  \/ UpdateAmbient
  \/ UpdateStep
  \/ UpdateRender
  \/ FrameCallback
  \/ PointerMove
  \/ TouchMove
  \/ WindowResize

Spec == Init /\ [][Next]_vars

\* ------------------------------------------- the start-up on other layouts
\* The script up to the first pool, on a device that renders every format,
\* for the canvas laid out at every size of ResDims (device pixel ratio 1, so
\* the drawing buffer takes the size of the layout).

ResDims == (1..MaxDim) \cup {256, 391}

InitRes ==
  /\ pc = "script"
  /\ device \in {d \in Devices : d.renderable = {"R16F", "RG16F", "RGBA16F"}}
  /\ config \in Configs
  /\ ext = [formatRGBA |-> "null", formatRG |-> "null", formatR |-> "null",
            supportLinearFiltering |-> FALSE]
  /\ \E w \in ResDims, h \in ResDims :
       canvas = [width |-> 300, height |-> 150, clientWidth |-> w, clientHeight |-> h]
  /\ devicePixelRatio = <<1, 1>>
  /\ gl = InitGL
  /\ pool = UndefinedPool
  /\ pointer = [texcoordX |-> <<0, 1>>, texcoordY |-> <<0, 1>>,
                down |-> FALSE, moved |-> FALSE]
  /\ autoSplatTimer = Number(0)
  /\ dt = Number(0)
  /\ resized = FALSE
  /\ splatsLeft = 0
  /\ ticks = 0
  /\ scheduled = 0
  /\ exception = "none"
  /\ trace = <<>>
  /\ motion = FALSE

NextRes ==
  \/ Negotiate
  \/ Setup

SpecRes == InitRes /\ [][NextRes]_vars

\* ------------------------------------------------ the loop under any clock
\* The whole script on one device, with no input events, followed for
\* MaxClockTicks ticks whose clock readings are any of ClockElapsed apart.

\* Date.now() - lastTime at a tick, in milliseconds: a frame at 60 Hz, and an
\* hour in the background
ClockElapsed == {16, 3600000}

InitClock ==
  /\ Init
  /\ device = [api |-> "webgl2", renderable |-> {"R16F", "RG16F", "RGBA16F"},
               linear |-> TRUE]
  /\ config.PRESSURE_ITERATIONS = 1

\* the browser runs the requested frame callback
FrameCallbackClock ==
  /\ pc = "idle"
  /\ scheduled > 0
  /\ ticks < MaxClockTicks
  /\ scheduled' = scheduled - 1
  /\ \E elapsed \in ClockElapsed : UpdateBegin(elapsed)
  /\ ticks' = ticks + 1

NextClock ==
  \/ Negotiate
  \/ Setup
  \/ InitialSplat
  \/ FirstUpdate
  \/ UpdatePointer
  \/ UpdateAmbient
  \/ UpdateStep
  \/ UpdateRender
  \/ FrameCallbackClock

SpecClock == InitClock /\ [][NextClock]_vars

\* ------------------------------------------------------- the loop, forever
\* The script and its ticks with no bound on their number (the tick count
\* stays at MaxTicks once there), with move events in any interleaving, for
\* either value of config.PAUSED.  The layout stays as it is.

\* a WebGL2 device that renders every format, a WebGL1 device, and a device
\* without a renderable 4-channel format (on which update is never called)
LiveDevices ==
  {d \in Devices : d.renderable \in {{"R16F", "RG16F", "RGBA16F"}, {"RGBA"}, {"RG16F"}}}

InitLive ==
  /\ pc = "script"
  /\ device \in LiveDevices
  /\ \E c \in Configs, paused \in BOOLEAN :
       /\ c.PRESSURE_ITERATIONS = 1
       /\ config = [c EXCEPT !.PAUSED = paused]
  /\ ext = [formatRGBA |-> "null", formatRG |-> "null", formatR |-> "null",
            supportLinearFiltering |-> FALSE]
  /\ canvas = [width |-> 300, height |-> 150, clientWidth |-> 2, clientHeight |-> 1]
  /\ devicePixelRatio = <<1, 1>>
  /\ gl = InitGL
  /\ pool = UndefinedPool
  /\ pointer = [texcoordX |-> <<0, 1>>, texcoordY |-> <<0, 1>>,
                down |-> FALSE, moved |-> FALSE]
  /\ autoSplatTimer = Number(0)
  /\ dt = Number(0)
  /\ resized = FALSE
  /\ splatsLeft = 0
  /\ ticks = 0
  /\ scheduled = 0
  /\ exception = "none"
  /\ trace = <<>>
  /\ motion = FALSE

\* the browser runs the requested frame callback
FrameCallbackLive ==
  /\ pc = "idle"
  /\ scheduled > 0
  /\ scheduled' = scheduled - 1
  /\ \E elapsed \in ElapsedMillis : UpdateBegin(elapsed)
  /\ ticks' = Min(ticks + 1, MaxTicks)

NextLive ==
  \/ Negotiate
  \/ Setup
  \/ InitialSplat
  \/ FirstUpdate
  \/ UpdatePointer
  \/ UpdateAmbient
  \/ UpdateStep
  \/ UpdateRender
  \/ FrameCallbackLive
  \/ PointerMove
  \/ TouchMove

\* the positions of a job that is running
Running ==
  {"script", "setup", "initsplat", "update", "pointer", "ambient", "step", "render"}

\* A running job goes on: JavaScript runs the script, and each call of
\* update, to its end.
JobGoesOn == pc \in Running /\ pc' \in Running \cup {"idle", "inert", "crashed"}

\* The browser runs a frame callback that was requested.
CallbackRuns == pc = "idle" /\ scheduled > 0 /\ pc' = "pointer"

\* Events may or may not come; jobs go on and requested callbacks are run.
SpecLive ==
  /\ InitLive
  /\ [][NextLive]_vars
  /\ WF_pc(JobGoesOn)
  /\ WF_pc(CallbackRuns)

\* ================================================================ properties

\* the draws of a recorded call
Draws(t) == SelectSeq(t, LAMBDA e : e.op = "draw")

DoubleBuffered == {"dye", "velocity", "pressure"}

\* the positions of the draws of one program in a recorded call
DrawsOf(t, prog) == {i \in DOMAIN t : t[i].op = "draw" /\ t[i].prog = prog}

SwapsOf(t, field) == {i \in DOMAIN t : t[i].op = "swap" /\ t[i].field = field}

\* C1 (as stated): once the negotiation has left ext.formatRGBA null, the
\* module is inert: no exception is raised, no tick runs, no frame callback
\* is requested and nothing is drawn.
C1_InertWithoutFormat ==
  (pc # "script" /\ ext.formatRGBA = "null") =>
     /\ exception = "none"
     /\ ticks = 0
     /\ scheduled = 0
     /\ Draws(trace) = <<>>

\* C2: one call of step draws with the pressure program exactly
\* PRESSURE_ITERATIONS times, every such draw is followed at once by one swap
\* of the pressure pair (which has one more swap, that of the decay pass);
\* with zero iterations the pressure texture gradientSubtract samples is the
\* one the decay pass drew, from the previous pressure with value = PRESSURE,
\* and it holds the previous pressure's data when PRESSURE is 1.
C2_PressureSweeps ==
  [][pc = "step" =>
       LET t == trace'
           sweeps == DrawsOf(t, "pressure")
           decay == CHOOSE i \in DrawsOf(t, "clear") : TRUE
           subtract == CHOOSE i \in DrawsOf(t, "gradientSubtract") : TRUE
       IN /\ Cardinality(sweeps) = config.PRESSURE_ITERATIONS
          /\ \A i \in sweeps :
                /\ i + 1 \in SwapsOf(t, "pressure")
                /\ i + 2 \notin SwapsOf(t, "pressure")
          /\ Cardinality(SwapsOf(t, "pressure")) = config.PRESSURE_ITERATIONS + 1
          /\ Cardinality(DrawsOf(t, "clear")) = 1
          /\ Cardinality(DrawsOf(t, "gradientSubtract")) = 1
          /\ config.PRESSURE_ITERATIONS = 0 =>
                /\ t[subtract].samples.uPressure = t[decay].target
                /\ t[decay].target = pool.pressure.write
                /\ t[decay].samples.uTexture = pool.pressure.read
                /\ t[decay].u.value = config.PRESSURE
                /\ pool'.pressure.read = t[decay].target
                /\ config.PRESSURE = <<1, 1>> =>
                      gl'.textures[t[decay].target].val
                        = gl.textures[pool.pressure.read].val
  ]_vars

\* a step with no pressure sweep and carry-over factor 1 has run, in a tick
\* after the first
C2_Witness ==
  /\ pc = "render"
  /\ ticks > 1
  /\ config.PRESSURE_ITERATIONS = 0
  /\ config.PRESSURE = <<1, 1>>
  /\ DrawsOf(trace, "gradientSubtract") # {}

\* C3: no draw of splat, step or render writes a texture it samples; a draw
\* into a double-buffered field samples that field's .read buffer, writes
\* another texture, and is followed at once by the field's swap, after which
\* the texture it wrote is the .read buffer.
C3_NoFeedback ==
  \A i \in DOMAIN trace :
    trace[i].op = "draw" =>
      /\ trace[i].target \notin Reads(trace[i])
      /\ trace[i].field \in DoubleBuffered =>
            /\ trace[i].front \in Reads(trace[i])
            /\ trace[i].front # trace[i].target
            /\ trace[i].target # 0
            /\ i + 1 \in SwapsOf(trace, trace[i].field)
      /\ pool.defined =>
            \A f \in DoubleBuffered : pool[f].read # pool[f].write

\* the velocity advection of a tick after a rebuild has been drawn
C3_Witness ==
  /\ pc = "render"
  /\ ticks > 1
  /\ resized
  /\ \E i \in DrawsOf(trace, "advection") : trace[i].field = "velocity"

\* the programs of the passes of step, in order, for n pressure sweeps
StepOrder(n) ==
  <<"curl", "vorticity", "divergence", "clear">>
  \o [i \in 1..n |-> "pressure"]
  \o <<"gradientSubtract", "advection", "advection">>

\* the fields the passes of step draw into, in order
StepTargets(n) ==
  <<"curl", "velocity", "divergence", "pressure">>
  \o [i \in 1..n |-> "pressure"]
  \o <<"velocity", "velocity", "dye">>

\* C4: the draws of every call of step are, in this order: curl, vorticity,
\* divergence, pressure decay (clear), PRESSURE_ITERATIONS pressure sweeps,
\* gradient subtraction, velocity advection, dye advection; each into its
\* field, none missing, none twice.
C4_StepOrder ==
  [][pc = "step" =>
       LET d == Draws(trace')
       IN /\ [i \in DOMAIN d |-> d[i].prog] = StepOrder(config.PRESSURE_ITERATIONS)
          /\ [i \in DOMAIN d |-> d[i].field] = StepTargets(config.PRESSURE_ITERATIONS)
  ]_vars

\* a step with the largest number of sweeps has run
C4_Witness ==
  /\ pc = "render"
  /\ config.PRESSURE_ITERATIONS = MaxIterations
  /\ Len(Draws(trace)) = 8 + MaxIterations - 1

\* one splat is two draws of the splat program: velocity, then dye
SplatsIn(t) == Cardinality(DrawsOf(t, "splat")) \div 2

\* C5 (as stated): when a pointermove or touchmove with non-zero displacement
\* came since the last tick looked at the pointer, the tick that looks at it
\* next performs exactly one pointer splat, whatever other move events came
\* in between.
C5_MotionConsumed ==
  [][(pc = "pointer" /\ motion) => SplatsIn(trace') = 1]_vars

\* C6: the pointer phase of a tick performs one splat when the moved flag
\* is set as it looks and none otherwise, the flag is false right after,
\* and no later phase of the tick touches the pointer.
C6_AtMostOnePointerSplat ==
  [][/\ pc = "pointer" =>
          /\ SplatsIn(trace') = (IF pointer.moved THEN 1 ELSE 0)
          /\ Len(Draws(trace')) = 2 * SplatsIn(trace')
          /\ ~pointer'.moved
     /\ pc \in {"ambient", "step", "render"} => pointer' = pointer
  ]_vars

\* a tick after the first has just consumed a motion
C6_Witness ==
  /\ pc = "ambient"
  /\ ticks > 1
  /\ SplatsIn(trace) = 1
  /\ ~pointer.moved

\* the textures created by the recorded call that are still alive
Created(t) ==
  {t[i].target : i \in {j \in DOMAIN t : t[j].op = "createTexture"}}
    \cap DOMAIN gl.textures

\* the textures the pool variables hold
PoolTextures ==
  {pool.dye.read, pool.dye.write, pool.velocity.read, pool.velocity.write,
   pool.divergence.tex, pool.curl.tex, pool.pressure.read, pool.pressure.write}

\* the field a pool texture belongs to
FieldsOf(id) ==
  {f \in DoubleBuffered : id \in {pool[f].read, pool[f].write}}
  \cup {f \in {"divergence", "curl"} : id = pool[f].tex}

\* C7: when the head of a tick has seen resizeCanvas report a change, the
\* five fields are eight distinct textures created in that very call, sized
\* getResolution of the new drawing buffer (dye from DYE_RESOLUTION, the
\* others from SIM_RESOLUTION), and each holds exactly what its creation
\* filled it with: zero in the colour channels, nothing drawn before.
C7_RebuildIsFresh ==
  (pc = "pointer" /\ resized) =>
     /\ pool.defined
     /\ Cardinality(PoolTextures) = PoolTargets
     /\ PoolTextures = Created(trace)
     /\ \A id \in PoolTextures :
           \A f \in FieldsOf(id) :
             LET res == getResolution(IF f = "dye" THEN config.DYE_RESOLUTION
                                     ELSE config.SIM_RESOLUTION,
                                     canvas.width, canvas.height)
                 tex == gl.textures[id]
             IN /\ pool[f].width = res.width /\ pool[f].height = res.height
                /\ tex.width = res.width /\ tex.height = res.height
                /\ tex.by = "clear"
                /\ tex.val = ClearImage(tex.fmt)
                /\ \A c \in DOMAIN tex.val : c < 4 => tex.val[c] = 0

\* the head of a tick after the first has rebuilt a pool that was drawn to
C7_Witness ==
  /\ pc = "pointer"
  /\ resized
  /\ ticks > 1
  /\ \E id \in DOMAIN gl.textures : gl.textures[id].by = "advection"

\* C8 (as stated): the textures alive are never more than those of two pool
\* generations.
C8_LiveTexturesBounded ==
  Cardinality(DOMAIN gl.textures) <= 2 * PoolTargets

\* C9 (as stated): every target made by the recorded call holds zero in
\* every channel.
C9_ZeroInEveryChannel ==
  \A id \in Created(trace) :
    \A c \in DOMAIN gl.textures[id].val : gl.textures[id].val[c] = 0

\* C9 (corrected): every target made by the recorded call holds zero in its
\* red, green and blue channels and, if it has four channels, one in alpha.
C9_ClearedToClearColor ==
  \A id \in Created(trace) :
    /\ DOMAIN gl.textures[id].val = 1..Channels(gl.textures[id].fmt)
    /\ \A c \in DOMAIN gl.textures[id].val :
          gl.textures[id].val[c] = (IF c = 4 THEN 1 ELSE 0)

\* a pool has just been made whose dye has four channels and whose other
\* fields have fewer
C9_Witness ==
  /\ pc = "initsplat"
  /\ \E id \in Created(trace) : Channels(gl.textures[id].fmt) = 4
  /\ \E id \in Created(trace) : Channels(gl.textures[id].fmt) = 1
  /\ Cardinality(Created(trace)) = PoolTargets

\* round(b * max(W, H) / min(W, H)), in exact arithmetic
ExactLongAxis(b, W, H) == Round(Rat(b * Max(W, H), Min(W, H)))

\* C10 (as stated): the first pool's velocity and dye fields have
\* round(b * max/min) texels (b the field's base resolution, W x H the
\* drawing buffer) along the axis on which the drawing buffer is larger and
\* b along the other; b along both when it is square.
C10_ExactResolution ==
  (pc = "initsplat" /\ pool.defined) =>
    \A f \in {"velocity", "dye"} :
      LET b == IF f = "dye" THEN config.DYE_RESOLUTION ELSE config.SIM_RESOLUTION
          long == ExactLongAxis(b, canvas.width, canvas.height)
      IN /\ pool[f].width = (IF canvas.width > canvas.height THEN long ELSE b)
         /\ pool[f].height = (IF canvas.height > canvas.width THEN long ELSE b)

\* C11: in every tick, whatever the clock read, update's dt is at most
\* 0.016667, and it is the dt the draws of step carry in their dt uniform
\* (autoSplat is handed the same variable).
C11_DtClamped ==
  /\ ~SignedLess(MaxDt, dt)
  /\ \A i \in DOMAIN trace :
        (trace[i].op = "draw" /\ trace[i].prog \in {"vorticity", "advection"})
          => trace[i].u.dt = dt

\* a step has run in a tick that came an hour after the one before: its dt
\* is the bound itself
C11_Witness ==
  /\ pc = "render"
  /\ ticks > 1
  /\ dt = MaxDt
  /\ DrawsOf(trace, "advection") # {}

\* the programs of the draws of a recorded call, in order
Programs(t) == [i \in DOMAIN Draws(t) |-> Draws(t)[i].prog]

\* the targets a recorded call allocated
Allocations(t) == {i \in DOMAIN t : t[i].op = "createTexture"}

\* C12: a tick runs, in this order: the resize check, which allocates a pool
\* exactly when the canvas size changed and draws nothing; the pointer
\* phase, which draws at most one splat; the ambient phase, likewise; one
\* step; one display pass to the canvas, with which exactly one next tick
\* is requested (none was pending).  Nothing but the resize check allocates,
\* and a tick starts only from the end of the script or from a requested
\* callback.
C12_TickPhases ==
  [][/\ (pc' = "pointer" /\ pc # "pointer") =>
          /\ pc \in {"update", "idle"}
          /\ pc = "idle" => (scheduled = 1 /\ scheduled' = 0)
          /\ Draws(trace') = <<>>
          /\ resized' = (canvas' # canvas)
          /\ Cardinality(Allocations(trace')) = (IF resized' THEN PoolTargets ELSE 0)
     /\ pc = "pointer" =>
          /\ pc' = "ambient"
          /\ Programs(trace') \in {<<>>, <<"splat", "splat">>}
     /\ pc = "ambient" =>
          /\ pc' = "step"
          /\ Programs(trace') \in {<<>>, <<"splat", "splat">>}
     /\ pc = "step" =>
          /\ pc' = "render"
          /\ Programs(trace') = StepOrder(config.PRESSURE_ITERATIONS)
     /\ pc = "render" =>
          /\ pc' = "idle"
          /\ Programs(trace') = <<"display">>
          /\ Draws(trace')[1].target = 0
          /\ scheduled = 0 /\ scheduled' = 1
     /\ pc \in {"pointer", "ambient", "step", "render"} =>
          (Allocations(trace') = {} /\ canvas' = canvas)
  ]_vars

\* a tick after the first that rebuilt the pool has drawn to the canvas and
\* requested the next tick
C12_Witness ==
  /\ pc = "idle"
  /\ ticks > 1
  /\ resized
  /\ scheduled = 1
  /\ DrawsOf(trace, "display") # {}

\* C13: the ambient phase of a tick adds the tick's dt to autoSplatTimer;
\* when the sum exceeds 0.4 it draws one splat and leaves the timer at 0,
\* otherwise it draws nothing and leaves the sum in the timer; no other
\* phase changes the timer.
C13_AmbientAccounting ==
  [][/\ pc = "ambient" =>
          IF SignedLess(AutoSplatThreshold, SignedAdd(autoSplatTimer, dt))
            THEN /\ SplatsIn(trace') = 1
                 /\ Len(Draws(trace')) = 2
                 /\ autoSplatTimer' = Number(0)
            ELSE /\ Draws(trace') = <<>>
                 /\ autoSplatTimer' = SignedAdd(autoSplatTimer, dt)
     /\ pc # "ambient" => autoSplatTimer' = autoSplatTimer
  ]_vars

\* the ambient phase of a tick has just drawn its splat and set the timer
\* back
C13_Witness ==
  /\ pc = "step"
  /\ ticks > 1
  /\ SplatsIn(trace) = 1
  /\ autoSplatTimer = Number(0)

\* a transition that is one call of splat which returned: an iteration of
\* the initial loop, or a pointer or ambient phase that drew a splat
SplatCall ==
  /\ exception' = "none"
  /\ \/ pc = "initsplat"
     \/ (pc \in {"pointer", "ambient"} /\ DrawsOf(trace', "splat") # {})

\* C14: a call of splat swaps the velocity pair once and the dye pair once
\* (each after the one draw into its write buffer) and nothing else: the
\* pressure pair keeps its read/write assignment, and the pressure,
\* divergence and curl textures keep their contents.
C14_SplatSwaps ==
  [][SplatCall =>
       /\ Cardinality(SwapsOf(trace', "velocity")) = 1
       /\ Cardinality(SwapsOf(trace', "dye")) = 1
       /\ SwapsOf(trace', "pressure") = {}
       /\ \A f \in {"velocity", "dye"} :
             /\ pool'[f].read = pool[f].write
             /\ pool'[f].write = pool[f].read
             /\ \E i \in DrawsOf(trace', "splat") :
                   /\ trace'[i].target = pool[f].write
                   /\ i + 1 \in SwapsOf(trace', f)
       /\ pool'.pressure = pool.pressure
       /\ pool'.divergence = pool.divergence
       /\ pool'.curl = pool.curl
       /\ \A id \in {pool.pressure.read, pool.pressure.write,
                       pool.divergence.tex, pool.curl.tex} :
             gl'.textures[id] = gl.textures[id]
  ]_vars

\* a pointer splat has been drawn over fields a step had computed
C14_Witness ==
  /\ pc = "ambient"
  /\ ticks > 1
  /\ SplatsIn(trace) = 1
  /\ gl.textures[pool.pressure.read].by \in {"pressure", "clear"}
  /\ gl.textures[pool.curl.tex].by = "curl"

\* C15: the two draws of a call of splat carry the same point, aspectRatio
\* and radius uniforms; aspectRatio is canvas.width / canvas.height and
\* radius is SPLAT_RADIUS / 100, times that ratio when it exceeds 1, for the
\* canvas size in force at the call, which is the size the last resize
\* check gave the canvas for its present layout.
C15_SplatGeometry ==
  [][SplatCall =>
       LET d == Draws(trace')
           r == config.SPLAT_RADIUS
       IN /\ Len(d) = 2
          /\ d[1].field = "velocity" /\ d[2].field = "dye"
          /\ d[1].u.point = d[2].u.point
          /\ d[1].u.aspectRatio = d[2].u.aspectRatio
          /\ d[1].u.radius = d[2].u.radius
          /\ d[1].u.aspectRatio = Rat(canvas.width, canvas.height)
          /\ d[1].u.radius =
                (IF canvas.width > canvas.height
                   THEN Rat(r[1] * canvas.width, r[2] * 100 * canvas.height)
                   ELSE Rat(r[1], r[2] * 100))
          /\ canvas.width =
                Floor(RatMul(<<canvas.clientWidth, 1>>, EffectiveDpr(devicePixelRatio)))
          /\ canvas.height =
                Floor(RatMul(<<canvas.clientHeight, 1>>, EffectiveDpr(devicePixelRatio)))
  ]_vars

\* a pointer splat has been drawn in a tick whose resize check had just
\* turned the canvas to landscape
C15_Witness ==
  /\ pc = "ambient"
  /\ ticks > 1
  /\ resized
  /\ canvas.width > canvas.height
  /\ SplatsIn(trace) = 1

\* C16: the display pass of a tick samples dye.read with backColor =
\* BACK_COLOR, draws to the canvas, and changes no texture and no pool
\* variable; a second call of render made right after it issues the same
\* draw (same program, same sampled texture, same uniforms, same target) on
\* the same texture contents, and again changes nothing.
C16_RenderIdempotent ==
  [][pc = "render" =>
       LET first == Draws(trace')
           again == Run([gl |-> gl', pool |-> pool', trace |-> <<>>,
                         exception |-> exception'],
                        render(config))
       IN /\ Len(first) = 1
          /\ first[1].prog = "display"
          /\ first[1].samples.uTexture = pool.dye.read
          /\ first[1].u.backColor =
                <<config.BACK_COLOR.r, config.BACK_COLOR.g, config.BACK_COLOR.b>>
          /\ pool' = pool
          /\ gl'.textures = gl.textures
          /\ Draws(again.trace) = first
          /\ again.pool = pool'
          /\ again.gl.textures = gl'.textures
  ]_vars

\* the display pass of a tick after the first has drawn dye that a step
\* advected
C16_Witness ==
  /\ pc = "idle"
  /\ ticks > 1
  /\ DrawsOf(trace, "display") # {}
  /\ gl.textures[pool.dye.read].by = "advection"

\* C17: between jobs (where the move listeners run) nothing is drawn,
\* swapped or allocated: the GL context, the pool variables, the canvas size
\* and the ambient timer stay as they are, whatever events arrive, so they
\* change only in the script and in ticks.  The pointer sample changes only
\* between jobs and in the pointer phase of a tick, which changes nothing of
\* it but the moved flag; the point of a pointer splat is the sample as the
\* tick finds it, and the splats of the other phases take their point
\* elsewhere.
C17_HandlersOnlySample ==
  [][/\ (pc \in {"idle", "crashed"} /\ pc' = pc) =>
          /\ gl' = gl
          /\ pool' = pool
          /\ trace' = trace
          /\ exception' = exception
          /\ autoSplatTimer' = autoSplatTimer
          /\ canvas'.width = canvas.width /\ canvas'.height = canvas.height
     /\ pointer' # pointer =>
          \/ (pc \in {"idle", "crashed"} /\ pc' = pc)
          \/ (pc = "pointer" /\ pointer' = [pointer EXCEPT !.moved = FALSE])
     /\ \A i \in DrawsOf(trace', "splat") :
          IF pc = "pointer"
            THEN trace'[i].u.point = <<pointer.texcoordX, pointer.texcoordY>>
            ELSE trace'[i].u.point \in Randoms \X Randoms
  ]_vars

\* after a tick, with its display pass the last thing drawn, a move event
\* has set the sample's moved flag
C17_Witness ==
  /\ pc = "idle"
  /\ ticks > 1
  /\ pointer.moved
  /\ DrawsOf(trace, "display") # {}

\* C18: never is more than one frame callback pending; between jobs, once
\* update has run, exactly one is; and under a scheduler that runs requested
\* callbacks every tick is followed by another: from the end of a tick a
\* tick starts, and a started tick comes to its end.  This for either value
\* of config.PAUSED.
C18_LoopNeverStops ==
  /\ [](scheduled <= 1)
  /\ []((pc = "idle") => (scheduled = 1 /\ ticks > 0))
  /\ (pc = "idle") ~> (pc = "pointer")
  /\ (pc = "pointer") ~> (pc = "idle")

\* with config.PAUSED set the loop has gone on until the ambient timer was
\* set back: a tick has ended and the next one is requested
C18_Witness ==
  /\ pc = "idle"
  /\ config.PAUSED
  /\ ticks = MaxTicks
  /\ scheduled = 1
  /\ autoSplatTimer = Number(0)

\* the three tiers of context.ext
Tiers == {"formatR", "formatRG", "formatRGBA"}

\* the formats a tier may end up with, narrowest first: on WebGL2 the
\* tier's own and the wider ones, on WebGL1 the 4-channel one
TierList(api, tier) ==
  IF api = "webgl2"
    THEN CASE tier = "formatR" -> <<"R16F", "RG16F", "RGBA16F">>
           [] tier = "formatRG" -> <<"RG16F", "RGBA16F">>
           [] OTHER -> <<"RGBA16F">>
    ELSE <<"RGBA">>

\* the positions of the renderable formats of a list
RenderableIn(list) == {i \in DOMAIN list : list[i] \in device.renderable}

\* the first renderable format of a list, null when there is none
FirstRenderable(list) ==
  IF RenderableIn(list) = {} THEN "null"
  ELSE list[CHOOSE i \in RenderableIn(list) : \A j \in RenderableIn(list) : i <= j]

\* the device's 4-channel format
FourChannel == IF device.api = "webgl2" THEN "RGBA16F" ELSE "RGBA"

\* the probes a tier's negotiation makes: up to and including the first
\* renderable format of its list
ProbesOf(list) ==
  IF RenderableIn(list) = {} THEN Len(list)
  ELSE CHOOSE i \in RenderableIn(list) : \A j \in RenderableIn(list) : i <= j

\* the negotiation has been made
Negotiated == pc \notin {"script", "inert"}

\* C19 (as stated): every tier holds the first renderable format of its
\* list, a tier is null exactly when the 4-channel format is not
\* renderable, and a tier that is not null holds a renderable format.
C19_NullWithoutFourChannel ==
  Negotiated =>
    \A t \in Tiers :
      /\ ext[t] = FirstRenderable(TierList(device.api, t))
      /\ (ext[t] = "null") = (FourChannel \notin device.renderable)
      /\ ext[t] # "null" => ext[t] \in device.renderable

\* C19: the negotiation ends, having probed each tier's list up to its first
\* renderable format (one probe per tier on WebGL1 is one probe in all);
\* every tier holds the first renderable format of its list; a tier is null
\* exactly when no format of its list is renderable, so the 4-channel tier
\* exactly when the 4-channel format is not; a tier that is not null holds a
\* renderable format.
C19_FirstRenderableOrNull ==
  Negotiated =>
    /\ \A t \in Tiers :
          /\ ext[t] = FirstRenderable(TierList(device.api, t))
          /\ (ext[t] = "null") = (RenderableIn(TierList(device.api, t)) = {})
          /\ ext[t] # "null" => ext[t] \in device.renderable
    /\ (ext.formatRGBA = "null") = (FourChannel \notin device.renderable)
    /\ pc = "setup" =>
          Cardinality(Allocations(trace)) =
            (IF device.api = "webgl2"
               THEN ProbesOf(TierList("webgl2", "formatRGBA"))
                    + ProbesOf(TierList("webgl2", "formatRG"))
                    + ProbesOf(TierList("webgl2", "formatR"))
               ELSE 1)

\* the negotiation has gone from the 1-channel format through the
\* 2-channel one to the 4-channel one
C19_Witness ==
  /\ pc = "setup"
  /\ device.renderable = {"RGBA16F"}
  /\ ext.formatR = "RGBA16F"
  /\ ext.formatRG = "RGBA16F"

\* the probes the negotiation makes on the device
Probes ==
  IF device.api = "webgl2"
    THEN ProbesOf(TierList("webgl2", "formatRGBA"))
         + ProbesOf(TierList("webgl2", "formatRG"))
         + ProbesOf(TierList("webgl2", "formatR"))
    ELSE 1

\* C20: the negotiation's GL operations are, probe after probe, the
\* creation of one texture with its framebuffer and then the deletion of
\* these same two, whether or not the format was renderable; when it is over
\* no texture and no framebuffer exists and no texture unit holds one; and
\* no probe object ever exists later.
C20_ProbesLeaveNothing ==
  /\ pc = "setup" =>
        /\ Len(trace) = 2 * Probes
        /\ \A k \in 1..Probes :
              /\ trace[2 * k - 1].op = "createTexture"
              /\ trace[2 * k].op = "deleteTexture"
              /\ trace[2 * k - 1].target = k
              /\ trace[2 * k].target = k
        /\ gl.nextId = Probes + 1
        /\ DOMAIN gl.textures = {}
        /\ DOMAIN gl.framebuffers = {}
        /\ \A u \in DOMAIN gl.units : gl.units[u] = 0
  /\ Negotiated =>
        /\ DOMAIN gl.textures \cap (1..Probes) = {}
        /\ DOMAIN gl.framebuffers \cap (1..Probes) = {}

\* six probes have been made on a WebGL2 device that renders none of the
\* formats
C20_Witness ==
  /\ pc = "setup"
  /\ device.api = "webgl2"
  /\ device.renderable = {}
  /\ Len(trace) = 12

\* the drawing buffer has the size resizeCanvas computes from the layout
Fits(c, ratio) ==
  /\ c.width = Floor(RatMul(<<c.clientWidth, 1>>, EffectiveDpr(ratio)))
  /\ c.height = Floor(RatMul(<<c.clientHeight, 1>>, EffectiveDpr(ratio)))

\* the layout of the step's first state is that of its second
SameLayout ==
  /\ canvas'.clientWidth = canvas.clientWidth
  /\ canvas'.clientHeight = canvas.clientHeight
  /\ devicePixelRatio' = devicePixelRatio

\* C21: every resize check leaves a drawing buffer that fits the layout,
\* and it stays fitting as long as the client size and the pixel ratio stay
\* as they are; a check that finds it fitting returns false, leaves the
\* canvas as it is, allocates nothing and keeps every texture, framebuffer
\* and pool handle; and a resizeCanvas call directly after another returns
\* false and changes nothing.
C21_NoOpResize ==
  [][/\ (pc' = "pointer" /\ pc # "pointer") =>
          /\ Fits(canvas', devicePixelRatio')
          /\ Fits(canvas, devicePixelRatio) =>
                /\ ~resized'
                /\ canvas' = canvas
                /\ Allocations(trace') = {}
                /\ gl' = gl
                /\ pool' = pool
     /\ (Fits(canvas, devicePixelRatio) /\ SameLayout) =>
          Fits(canvas', devicePixelRatio')
     /\ LET once == resizeCanvas(canvas, devicePixelRatio)
            twice == resizeCanvas(once.canvas, devicePixelRatio)
        IN ~twice.changed /\ twice.canvas = once.canvas
  ]_vars

\* the head of a later tick has found the canvas as the tick before left
\* it, over a pool that was drawn to
C21_Witness ==
  /\ pc = "pointer"
  /\ ticks > 1
  /\ ~resized
  /\ trace = <<>>
  /\ \E id \in PoolTextures : gl.textures[id].by = "advection"

\* ------------------------------------------- the projection, texel by texel
\* The divergence, clear, pressure and gradient-subtract passes of step on a
\* small simulation grid whose texels hold numbers.  An image is [den, at]:
\* texel t holds the channels at[t][c] / den, exactly (the rounding of the
\* half-float targets is left out).

Texels(w, h) == (0 .. w - 1) \X (0 .. h - 1)

\* texture2D at the centre of texel (x, y) with CLAMP_TO_EDGE wrapping
Texture2D(img, w, h, x, y) ==
  img.at[<<Max(0, Min(w - 1, x)), Max(0, Min(h - 1, y))>>]

LCM(a, b) == (a \div GCD(a, b)) * b

RECURSIVE GCDOf(_, _)
GCDOf(S, g) ==
  IF S = {} THEN g
  ELSE LET n == CHOOSE k \in S : TRUE IN GCDOf(S \ {n}, GCD(g, n))

\* the same image over its least denominator, every texel computed
Reduce(img) ==
  LET at == img.at @@ <<>>
      g == GCDOf(UNION {{Abs(at[t][c]) : c \in DOMAIN at[t]} : t \in DOMAIN at},
                 img.den)
  IN [den |-> img.den \div g,
      at |-> [t \in DOMAIN at |-> [c \in DOMAIN at[t] |-> at[t][c] \div g] @@ <<>>]
             @@ <<>>]

\* divergenceShader: vL.x < 0.0 at the first column, vR.x > 1.0 at the
\* last, vB.y < 0.0 at the first row, vT.y > 1.0 at the last
divergenceShader(uVelocity, w, h) ==
  [den |-> 2 * uVelocity.den,
   at |-> [t \in Texels(w, h) |->
             LET C == uVelocity.at[t]
                 L == IF t[1] = 0 THEN -C[1]
                      ELSE Texture2D(uVelocity, w, h, t[1] - 1, t[2])[1]
                 R == IF t[1] = w - 1 THEN -C[1]
                      ELSE Texture2D(uVelocity, w, h, t[1] + 1, t[2])[1]
                 T == IF t[2] = h - 1 THEN -C[2]
                      ELSE Texture2D(uVelocity, w, h, t[1], t[2] + 1)[2]
                 B == IF t[2] = 0 THEN -C[2]
                      ELSE Texture2D(uVelocity, w, h, t[1], t[2] - 1)[2]
             IN <<R - L + T - B>>]]

\* clearShader: value * texture2D(uTexture, vUv)
clearShader(uTexture, value) ==
  [den |-> uTexture.den * value[2],
   at |-> [t \in DOMAIN uTexture.at |->
             [c \in DOMAIN uTexture.at[t] |-> value[1] * uTexture.at[t][c]]]]

\* pressureShader: (L + R + B + T - divergence) * 0.25
pressureShader(uPressure, uDivergence, w, h) ==
  LET den == LCM(uPressure.den, uDivergence.den)
      kp == den \div uPressure.den
      kd == den \div uDivergence.den
  IN [den |-> 4 * den,
      at |-> [t \in Texels(w, h) |->
                <<kp * (Texture2D(uPressure, w, h, t[1] - 1, t[2])[1]
                        + Texture2D(uPressure, w, h, t[1] + 1, t[2])[1]
                        + Texture2D(uPressure, w, h, t[1], t[2] - 1)[1]
                        + Texture2D(uPressure, w, h, t[1], t[2] + 1)[1])
                  - kd * uDivergence.at[t][1]>>]]

\* A faulty variant of gradientSubtractShader: the gradient is added.
gradientAddShader(uPressure, uVelocity, w, h) ==
  LET den == LCM(uPressure.den, uVelocity.den)
      kp == den \div uPressure.den
      kv == den \div uVelocity.den
  IN [den |-> den,
      at |-> [t \in Texels(w, h) |->
                <<kv * uVelocity.at[t][1]
                  + kp * (Texture2D(uPressure, w, h, t[1] + 1, t[2])[1]
                          - Texture2D(uPressure, w, h, t[1] - 1, t[2])[1]),
                  kv * uVelocity.at[t][2]
                  + kp * (Texture2D(uPressure, w, h, t[1], t[2] + 1)[1]
                          - Texture2D(uPressure, w, h, t[1], t[2] - 1)[1])>>]]

\* gradientSubtractShader: velocity.xy -= vec2(R - L, T - B)
gradientSubtractShader(uPressure, uVelocity, w, h) ==
  LET den == LCM(uPressure.den, uVelocity.den)
      kp == den \div uPressure.den
      kv == den \div uVelocity.den
  IN [den |-> den,
      at |-> [t \in Texels(w, h) |->
                <<kv * uVelocity.at[t][1]
                  - kp * (Texture2D(uPressure, w, h, t[1] + 1, t[2])[1]
                          - Texture2D(uPressure, w, h, t[1] - 1, t[2])[1]),
                  kv * uVelocity.at[t][2]
                  - kp * (Texture2D(uPressure, w, h, t[1], t[2] + 1)[1]
                          - Texture2D(uPressure, w, h, t[1], t[2] - 1)[1])>>]]

\* what the draw just issued leaves in its target, computed by the bound
\* program from the images its samplers read
Fragment(m, e) ==
  LET w == m.gl.textures[e.target].width
      h == m.gl.textures[e.target].height
  IN CASE e.prog = "divergence" ->
            divergenceShader(m.gl.textures[e.samples.uVelocity].val, w, h)
       [] e.prog = "clear" ->
            clearShader(m.gl.textures[e.samples.uTexture].val, e.u.value)
       [] e.prog = "pressure" ->
            pressureShader(m.gl.textures[e.samples.uPressure].val,
                           m.gl.textures[e.samples.uDivergence].val, w, h)
       [] e.prog = "gradientSubtract" ->
            gradientSubtractShader(m.gl.textures[e.samples.uPressure].val,
                                   m.gl.textures[e.samples.uVelocity].val, w, h)

\* a statement, a blit writing the numbers its fragment shader computes
ExecShaded(m, ins) ==
  LET after == Exec(m, ins)
      e == after.trace[Len(after.trace)]
  IN IF ins.i = "blit" /\ after.exception = "none"
          /\ e.target # 0 /\ e.target \notin Reads(e)
       THEN [after EXCEPT !.gl.textures[e.target].val = Reduce(Fragment(after, e))]
       ELSE after

RECURSIVE RunShaded(_, _)
RunShaded(m, code) ==
  IF code = <<>> \/ m.exception # "none"
    THEN m
    ELSE RunShaded(ExecShaded(m, Head(code)), Tail(code))

\* One velocity component of one texel set to -1, 0 or 1, and the velocity
\* fields followed: the sums of two of these.
Impulses == Texels(GridWidth, GridHeight) \X {1, 2} \X {-1, 0, 1}

Impulse(i, t, c) == IF i[1] = t /\ i[2] = c THEN i[3] ELSE 0

VelocityFields ==
  {[den |-> 1,
    at |-> [t \in Texels(GridWidth, GridHeight) |->
              <<Impulse(a, t, 1) + Impulse(b, t, 1),
                Impulse(a, t, 2) + Impulse(b, t, 2)>>]] :
     a \in Impulses, b \in Impulses}

\* The pressure the step before left: none, or 5/4 or -5/4 in the corner
\* texel (which the clear pass scales to 1 or -1).
LeftoverPressures ==
  {[den |-> 4,
    at |-> [t \in Texels(GridWidth, GridHeight) |->
              <<IF t = <<0, 0>> THEN 5 * s ELSE 0>>]] : s \in {-1, 1}}
  \cup {[den |-> 1, at |-> [t \in Texels(GridWidth, GridHeight) |-> <<0>>]]}

\* the formats and the filtering of a device that renders every format
GridExt ==
  [formatRGBA |-> "RGBA16F", formatRG |-> "RG16F", formatR |-> "R16F",
   supportLinearFiltering |-> TRUE]

\* a pool of GridWidth x GridHeight targets as initFramebuffers assigns it
GridPool ==
  AssignPool([gl |-> InitGL, pool |-> UndefinedPool, trace |-> <<>>,
              exception |-> "none"],
             [width |-> GridWidth, height |-> GridHeight],
             [width |-> GridWidth, height |-> GridHeight],
             GridExt)

\* The point of step where the projection begins, on the grid pool, with a
\* velocity field in velocity.read and a leftover pressure in pressure.read.
InitProj ==
  /\ pc = "divergence"
  /\ device = [api |-> "webgl2", renderable |-> {"R16F", "RG16F", "RGBA16F"},
               linear |-> TRUE]
  /\ config \in {[c EXCEPT !.PRESSURE_ITERATIONS = n] :
                   c \in {k \in AllConfigs : k.PRESSURE = <<4, 5>>},
                   n \in 0 .. MaxSweeps}
  /\ ext = GridExt
  /\ canvas = [width |-> 2, height |-> 1, clientWidth |-> 2, clientHeight |-> 1]
  /\ devicePixelRatio = <<1, 1>>
  /\ pool = GridPool.pool
  /\ \E v \in VelocityFields, q \in LeftoverPressures :
       gl = [GridPool.gl EXCEPT
               !.textures[GridPool.pool.velocity.read].val = v,
               !.textures[GridPool.pool.velocity.read].by = "splat",
               !.textures[GridPool.pool.pressure.read].val = q,
               !.textures[GridPool.pool.pressure.read].by = "pressure"]
  /\ pointer = [texcoordX |-> <<0, 1>>, texcoordY |-> <<0, 1>>,
                down |-> FALSE, moved |-> FALSE]
  /\ autoSplatTimer = Number(0)
  /\ dt = Number(0)
  /\ resized = FALSE
  /\ splatsLeft = 0
  /\ ticks = 1
  /\ scheduled = 0
  /\ exception = "none"
  /\ trace = <<>>
  /\ motion = FALSE

\* one pass of step, its draws computed texel by texel
Pass(from, code, to) ==
  /\ pc = from
  /\ Leave(RunShaded(Machine, code))
  /\ pc' = to
  /\ UNCHANGED <<device, config, ext, canvas, devicePixelRatio, pointer,
                 autoSplatTimer, dt, resized, splatsLeft, ticks, scheduled,
                 motion>>

ProjectDivergence == Pass("divergence", stepDivergence(pool), "clearPressure")

ProjectClearPressure == Pass("clearPressure", stepClearPressure(config), "pressureSolve")

ProjectPressureSolve ==
  Pass("pressureSolve", stepPressureSolve(pool, config), "gradientSubtract")

ProjectGradientSubtract ==
  Pass("gradientSubtract", stepGradientSubtract(pool), "projected")

NextProj ==
  \/ ProjectDivergence
  \/ ProjectClearPressure
  \/ ProjectPressureSolve
  \/ ProjectGradientSubtract

SpecProj == InitProj /\ [][NextProj]_vars

\* the sum of the squares of a one-channel image's numerators
RECURSIVE SquareSum(_, _)
SquareSum(img, S) ==
  IF S = {} THEN <<>>
  ELSE LET t == CHOOSE k \in S : TRUE
           n == BigNat(Abs(img.at[t][1]))
       IN BigAdd(BigMul(n, n), SquareSum(img, S \ {t}))

\* the L2 norm of image a is smaller than that of image b
NormLess(a, b) ==
  BigCmp(BigMul(SquareSum(a, DOMAIN a.at), BigNat(b.den * b.den)),
         BigMul(SquareSum(b, DOMAIN b.at), BigNat(a.den * a.den))) = -1

\* the divergence the projection started from
DivergenceBefore == gl.textures[pool.divergence.tex].val

\* the divergence of the velocity the projection left
DivergenceAfter ==
  divergenceShader(gl.textures[pool.velocity.read].val,
                   pool.velocity.width, pool.velocity.height)

Advections(t) == SelectSeq(t, LAMBDA e : e.op = "draw" /\ e.prog = "advection")

\* C23 (as stated): in every step the velocity-advection draw has the
\* velocity grid's texel size in dyeTexelSize, and the dye-advection draw
\* has the dye grid's.
C23_AdvectionTexelSize ==
  (pc = "render" /\ Len(Advections(trace)) = 2) =>
     /\ Advections(trace)[1].target \in {pool.velocity.read, pool.velocity.write}
     /\ Advections(trace)[1].u.dyeTexelSize = TexelSize(pool.velocity)
     /\ Advections(trace)[2].target \in {pool.dye.read, pool.dye.write}
     /\ Advections(trace)[2].u.dyeTexelSize = TexelSize(pool.dye)

\* the position in a recorded step of its k-th advection draw
AdvectionAt(t, k) ==
  CHOOSE i \in DrawsOf(t, "advection") :
    Cardinality({j \in DrawsOf(t, "advection") : j <= i}) = k

\* C24: in every step the dye-advection draw samples as uVelocity the
\* texture the velocity-advection draw of that step wrote, which is
\* velocity.read after the swap and not the texture that draw sampled (the
\* velocity before advection); nothing draws to it between the two draws
\* or before the step ends.
C24_DyeSamplesAdvectedVelocity ==
  (pc = "render" /\ Cardinality(DrawsOf(trace, "advection")) = 2) =>
     LET v == AdvectionAt(trace, 1)
         d == AdvectionAt(trace, 2)
     IN /\ trace[v].target \notin Reads(trace[v])
        /\ trace[v].target # 0
        /\ trace[d].samples.uVelocity = trace[v].target
        /\ trace[d].samples.uVelocity # trace[v].samples.uVelocity
        /\ trace[d].samples.uVelocity = pool.velocity.read
        /\ \A i \in DOMAIN trace :
              (i > v /\ trace[i].op = "draw") => trace[i].target # trace[v].target
        /\ SwapsOf(trace, "velocity") \cap (v + 1 .. d) # {}
        /\ gl.textures[pool.velocity.read].by = "advection"

\* a step of a later tick has advected the velocity and then the dye
C24_Witness ==
  /\ pc = "render"
  /\ ticks > 1
  /\ Cardinality(DrawsOf(trace, "advection")) = 2
  /\ trace[AdvectionAt(trace, 2)].samples.uVelocity
       = trace[AdvectionAt(trace, 1)].target
  /\ trace[AdvectionAt(trace, 2)].target = pool.dye.read

\* ------------------------------------------------------- the splat kernel
\* The script up to its first initial splat, on canvases of every client
\* size up to MaxDim x MaxDim, with Math.random() giving 0.5 twice: a splat
\* at the centre of the field.

InitSplat ==
  /\ pc = "script"
  /\ device = [api |-> "webgl2", renderable |-> {"R16F", "RG16F", "RGBA16F"},
               linear |-> TRUE]
  /\ config \in Configs
  /\ ext = [formatRGBA |-> "null", formatRG |-> "null", formatR |-> "null",
            supportLinearFiltering |-> FALSE]
  /\ \E w \in 1 .. MaxDim, h \in 1 .. MaxDim :
       canvas = [width |-> 300, height |-> 150, clientWidth |-> w, clientHeight |-> h]
  /\ devicePixelRatio = <<1, 1>>
  /\ gl = InitGL
  /\ pool = UndefinedPool
  /\ pointer = [texcoordX |-> <<0, 1>>, texcoordY |-> <<0, 1>>,
                down |-> FALSE, moved |-> FALSE]
  /\ autoSplatTimer = Number(0)
  /\ dt = Number(0)
  /\ resized = FALSE
  /\ splatsLeft = 0
  /\ ticks = 0
  /\ scheduled = 0
  /\ exception = "none"
  /\ trace = <<>>
  /\ motion = FALSE

CentreSplat ==
  /\ splatsLeft = InitialSplats
  /\ InitialSplatAt(<<1, 2>>, <<1, 2>>)

NextSplat ==
  \/ Negotiate
  \/ Setup
  \/ CentreSplat

SpecSplat == InitSplat /\ [][NextSplat]_vars

RatAdd(a, b) == Rat(a[1] * b[2] + b[1] * a[2], a[2] * b[2])

\* splatShader: p = vUv - point; p.x *= aspectRatio; the weight the colour
\* is multiplied by is exp(-dot(p, p) / radius).  The weight is stood for
\* by dot(p, p) / radius: the larger this is, the smaller the weight.
splatExponent(u, vUv) ==
  LET px == RatMul(RatSub(vUv[1], u.point[1]), u.aspectRatio)
      py == RatSub(vUv[2], u.point[2])
  IN RatDiv(RatAdd(RatMul(px, px), RatMul(py, py)), u.radius)

\* a < b for rationals that are not negative
ExponentLess(a, b) ==
  BigCmp(BigMul(BigNat(a[1]), BigNat(b[2])), BigMul(BigNat(b[1]), BigNat(a[2]))) = -1

\* the texture positions where the kernel is examined: a grid around the
\* centre, and the offsets along one axis
Offsets == {Rat(k, 2 * MaxOffset) : k \in -MaxOffset .. MaxOffset}

Positions == {<<RatAdd(<<1, 2>>, dx), RatAdd(<<1, 2>>, dy)>> : dx \in Offsets, dy \in Offsets}

\* the square of the distance of a texture position from the centre
Distance2(s) ==
  RatAdd(RatMul(RatSub(s[1], <<1, 2>>), RatSub(s[1], <<1, 2>>)),
         RatMul(RatSub(s[2], <<1, 2>>), RatSub(s[2], <<1, 2>>)))

\* the positions at texture offset o from the centre along the canvas's
\* longer and shorter axis
AlongLonger(o) ==
  IF canvas.width > canvas.height
    THEN <<RatAdd(<<1, 2>>, o), <<1, 2>>>>
    ELSE <<<<1, 2>>, RatAdd(<<1, 2>>, o)>>

AlongShorter(o) ==
  IF canvas.width > canvas.height
    THEN <<<<1, 2>>, RatAdd(<<1, 2>>, o)>>
    ELSE <<RatAdd(<<1, 2>>, o), <<1, 2>>>>

\* the draws of the splat at the centre, when it has just been made
CentreDraws ==
  IF pc = "initsplat" /\ splatsLeft = InitialSplats - 1
    THEN {trace[i] : i \in DrawsOf(trace, "splat")}
    ELSE {}

\* on a square canvas the weight is the same at equal distances from the
\* centre and smaller at larger ones
RadialOnSquare ==
  \A d \in CentreDraws :
     /\ d.u.point = <<<<1, 2>>, <<1, 2>>>>
     /\ canvas.width = canvas.height =>
          \A s \in Positions, t \in Positions :
             /\ Distance2(s) = Distance2(t) =>
                  splatExponent(d.u, s) = splatExponent(d.u, t)
             /\ ExponentLess(Distance2(s), Distance2(t)) =>
                  ExponentLess(splatExponent(d.u, s), splatExponent(d.u, t))

\* C25 (as stated): RadialOnSquare, and on a canvas that is not square the
\* weight at a texture offset along the longer axis is at least the weight
\* at the same offset along the shorter axis.
C25_StretchedAlongLongerAxis ==
  /\ RadialOnSquare
  /\ \A d \in CentreDraws :
        canvas.width # canvas.height =>
          \A o \in Offsets :
             ~ExponentLess(splatExponent(d.u, AlongShorter(o)),
                           splatExponent(d.u, AlongLonger(o)))

\* C25 (amended): RadialOnSquare, and on a canvas that is not square the
\* weight is the same at equal numbers of pixels from the centre along the
\* two axes, so that at the same non-zero texture offset it is smaller
\* along the longer axis than along the shorter one.
C25_CircularInPixels ==
  /\ RadialOnSquare
  /\ \A d \in CentreDraws :
        canvas.width # canvas.height =>
          /\ \A n \in 1 .. MaxDim :
                splatExponent(d.u, <<RatAdd(<<1, 2>>, Rat(n, canvas.width)), <<1, 2>>>>)
                  = splatExponent(d.u, <<<<1, 2>>, RatAdd(<<1, 2>>, Rat(n, canvas.height))>>)
          /\ \A o \in Offsets \ {<<0, 1>>} :
                ExponentLess(splatExponent(d.u, AlongShorter(o)),
                             splatExponent(d.u, AlongLonger(o)))

\* the splat at the centre has been drawn on a landscape canvas
C25_Witness ==
  /\ CentreDraws # {}
  /\ canvas.width > canvas.height
  /\ \A d \in CentreDraws : d.u.point = <<<<1, 2>>, <<1, 2>>>>

\* the textures of the pool generation allocated last
CurrentGeneration == (gl.nextId - PoolTargets) .. (gl.nextId - 1)

\* C26: once a pool exists, the pool variables hold exactly the textures of
\* the generation allocated last, and every draw of every splat, step and
\* render samples, through each of its samplers, a texture of that
\* generation and writes a texture of that generation or the canvas,
\* whatever the texture units still hold from before the rebuild.
C26_OnlyCurrentGeneration ==
  pool.defined =>
     /\ PoolTextures = CurrentGeneration
     /\ \A i \in DOMAIN trace :
           trace[i].op = "draw" =>
              /\ \A sampler \in DOMAIN trace[i].samples :
                    trace[i].samples[sampler] \in CurrentGeneration
              /\ trace[i].target \in CurrentGeneration \cup {0}

\* a splat has been drawn right after a rebuild while a texture unit still
\* holds a texture of the discarded generation
C26_Witness ==
  /\ pc = "ambient"
  /\ ticks > 1
  /\ resized
  /\ SplatsIn(trace) = 1
  /\ \E k \in DOMAIN gl.units :
        /\ gl.units[k] \in DOMAIN gl.textures
        /\ gl.units[k] \notin CurrentGeneration

\* ------------------------------------------- the loop under a stepped clock
\* As under any clock, with a wall clock that may have been set back by 40 ms
\* between two ticks.

SteppedElapsed == {-40, 16}

\* the browser runs the requested frame callback
FrameCallbackStepped ==
  /\ pc = "idle"
  /\ scheduled > 0
  /\ ticks < MaxClockTicks
  /\ scheduled' = scheduled - 1
  /\ \E elapsed \in SteppedElapsed : UpdateBegin(elapsed)
  /\ ticks' = ticks + 1

NextStepped ==
  \/ Negotiate
  \/ Setup
  \/ InitialSplat
  \/ FirstUpdate
  \/ UpdatePointer
  \/ UpdateAmbient
  \/ UpdateStep
  \/ UpdateRender
  \/ FrameCallbackStepped

SpecStepped == InitClock /\ [][NextStepped]_vars

\* C27 (as stated): whatever the clock reads, the dt of a tick is never
\* negative, and the ambient timer never goes down except to 0.
C27_DtNeverNegative ==
  [][/\ ~dt'.neg
     /\ \/ autoSplatTimer' = Number(0)
        \/ ~SignedLess(autoSplatTimer', autoSplatTimer)
  ]_vars

====
